---- MODULE Spec2Model ----
(***************************************************************************)
(* Account pool, cooldown state machine and JWT cache of business-gemini.  *)
(*                                                                         *)
(* Time is time.time() in whole seconds.  An absent / None / popped        *)
(* timestamp is 0 (Python tests them with "if not cooldown_until").        *)
(* An absent JWT or session (None) is 0; tokens and session names are      *)
(* fresh positive numbers.                                                 *)
(***************************************************************************)
EXTENDS Integers, Sequences, FiniteSets, TLC

VARIABLES
    now,              \* time.time()
    use_database,     \* AccountManager.use_database
    auto_refresh,     \* config["auto_refresh_cookie"]
    accounts,         \* AccountManager.accounts: the config rows
    stored,           \* what save_config last wrote (DB rows or JSON file)
    account_states,   \* AccountManager.account_states
    current_index,    \* AccountManager.current_index
    refresh_event,    \* cookie_refresh._immediate_refresh_event
    worker_pc,        \* auto_refresh_expired_cookies_worker position
    unserved_signal,  \* the event was set and no check pass has started since
    sel_log,          \* results of the get_next_account calls so far
    quota_errors,     \* accounts[i]["quota_errors"] of the observed accounts
    recorded_errors,  \* every error record appended so far, per observed account
    error_calls,      \* mark_quota_error calls made so far, per counted account
    stale_fetch,      \* per watched thread: the cache was cleared after its getoxsrf request was sent
    conversation_sessions, \* account_manager.conversation_sessions, per followed account
    t_conv,           \* per request thread: conversation_id of its ensure_session_for_account call
    cleared_sessions, \* session names that were cached and cleared, of the followed accounts
    pc,               \* per request thread: position in ensure_jwt_for_account
    t_acc,            \* per request thread: account_idx argument
    t_jwt,            \* per request thread: the jwt local / return value
    t_jwt_time,       \* per request thread: when its jwt was fetched
    t_session,        \* per request thread: the session its last call returned
    oxsrf_inflight,   \* per account: getoxsrf requests in flight
    next_token,       \* source of fresh JWT / session names
    text_left,        \* upstream response text not yet received
    buffer,           \* JSONStreamParser.buffer
    decoded,          \* the objects JSONStreamParser.decode has returned so far
    elements,         \* the elements of the array the upstream serialized
    gen_pc,           \* position in stream_chat_realtime_generator / stream_chat_with_images
    streaming,        \* TRUE: the generator; FALSE: stream_chat_with_images
    has_ids,          \* chat_id, created and model_name were all passed
    replies,          \* the replies of the upstream response, in stream order
    current_session,  \* a sessionInfo.session was seen (TRUE) or not
    next_reply,       \* index of the next reply to handle
    emitted,          \* what the generator has yielded so far
    texts,            \* the texts list of stream_chat_with_images
    images,           \* result.images
    file_ids_list,    \* fileId references collected for download
    next_file         \* index of the next entry of file_ids_list to download

vars == <<now, use_database, auto_refresh, unserved_signal, accounts, stored, account_states,
          current_index, refresh_event, worker_pc, sel_log,
          quota_errors, recorded_errors, error_calls, stale_fetch,
          conversation_sessions, t_conv, cleared_sessions,
          pc, t_acc, t_jwt, t_jwt_time, t_session, oxsrf_inflight, next_token,
          text_left, buffer, decoded, elements,
          gen_pc, streaming, has_ids, replies, current_session, next_reply,
          emitted, texts, images, file_ids_list, next_file>>

poolVars == <<accounts, stored, account_states, current_index, refresh_event,
              worker_pc, sel_log>>
threadVars == <<pc, t_acc, t_jwt, t_jwt_time, t_session, oxsrf_inflight, next_token>>
ringVars == <<quota_errors, recorded_errors, error_calls, stale_fetch>>
genVars == <<gen_pc, streaming, has_ids, replies, current_session, next_reply,
             emitted, texts, images, file_ids_list, next_file>>
streamVars == <<text_left, buffer, decoded, elements, genVars>>
convVars == <<conversation_sessions, t_conv, cleared_sessions>>
signalVars == <<unserved_signal>>
accountVars == <<now, use_database, auto_refresh, signalVars, convVars, ringVars, poolVars, threadVars>>

-----------------------------------------------------------------------------
(* Bounds of the model *)

MaxTicks == 2
MaxCalls == 4
NumThreads == 2
MaxTokens == 3
MaxAccounts == 3
MaxElems == 2
MaxReplies == 2

(* Program constants *)

AUTH_ERROR_COOLDOWN_SECONDS == 900
RATE_LIMIT_COOLDOWN_SECONDS == 300
GENERIC_ERROR_COOLDOWN_SECONDS == 120
JWT_MAX_AGE == 240
QUOTA_ERRORS_KEPT == 5

\* range(len(self.accounts))
Indices == DOMAIN accounts
Threads == 1 .. NumThreads
Kinds == {"images", "text_queries"}
NoKind == "none"
KindsOrNone == Kinds \cup {NoKind}
StatusCodes == {401, 403, 429, 500}
NoAccount == -1

\* conversation ids of the callers; NoConv is conversation_id=None
ConvIds == {"c"}
NoConv == "none"

\* The clock advances in steps of five minutes and starts ten minutes
\* before a Pacific-time midnight.
TickSeconds == RATE_LIMIT_COOLDOWN_SECONDS
StartTs == 2 * 86400 + 8 * 3600 - 2 * TickSeconds
MaxNow == StartTs + MaxTicks * TickSeconds

\* utils.seconds_until_next_pt_midnight (Pacific standard time, UTC-8)
seconds_until_next_pt_midnight(now_ts) ==
    LET pt == now_ts - 8 * 3600
    IN  ((pt \div 86400) + 1) * 86400 - pt

Max(a, b) == IF a >= b THEN a ELSE b

-----------------------------------------------------------------------------
(* Rows and runtime states *)

\* one account dict as load_config builds it
NewAccount(avail) ==
    [available |-> avail, cookie_expired |-> FALSE, cooldown_until |-> 0,
     unavailable_reason |-> ""]

\* The Account columns _save_to_db writes and _load_from_db reads back: the
\* identity and "available"; the other keys of the dict are not stored
DbRow(acc) ==
    [acc EXCEPT !.cookie_expired = FALSE, !.cooldown_until = 0,
                !.unavailable_reason = ""]

\* _save_to_db: the row with id i + 1 is updated or inserted for every
\* accounts[i]; no row is deleted
saved_rows(accs) ==
    [i \in DOMAIN accs \cup DOMAIN stored |->
        IF i \in DOMAIN accs THEN DbRow(accs[i]) ELSE stored[i]]

\* save_config: the database keeps the Account columns, the JSON file the
\* whole account dicts
save_config(accs) ==
    IF use_database THEN saved_rows(accs) ELSE accs

\* faulty variant: the cooldown of the row is not read
init_state_without_cooldown(acc) ==
    [jwt |-> 0, jwt_time |-> 0, session |-> 0,
     session_count |-> 0, session_created_time |-> 0,
     available |-> acc.available,
     cooldown_until |-> 0,
     cooldown_reason |-> acc.unavailable_reason,
     cookie_expired |-> acc.cookie_expired,
     has_cooldown_key |-> TRUE,
     quota_type_cooldowns |-> [k \in Kinds |-> 0]]

\* account_states[i] as load_config initialises it from the row
InitState(acc) ==
    [jwt |-> 0, jwt_time |-> 0, session |-> 0,
     session_count |-> 0, session_created_time |-> 0,
     available |-> acc.available,
     cooldown_until |-> acc.cooldown_until,
     cooldown_reason |-> acc.unavailable_reason,
     cookie_expired |-> acc.cookie_expired,
     has_cooldown_key |-> TRUE,
     quota_type_cooldowns |-> [k \in Kinds |-> 0]]

ReasonOf(status) == CASE status = 401 -> "HTTP 401"
                      [] status = 403 -> "HTTP 403"
                      [] status = 429 -> "HTTP 429"
                      [] OTHER -> "HTTP 500"

-----------------------------------------------------------------------------
(* Availability *)

\* self.account_states.get(index, {}) read with the defaults of its readers:
\* available True, no cooldown, no quota_type_cooldowns
EmptyState ==
    [jwt |-> 0, jwt_time |-> 0, session |-> 0, available |-> TRUE,
     cooldown_until |-> 0, cooldown_reason |-> "", cookie_expired |-> FALSE,
     has_cooldown_key |-> FALSE, quota_type_cooldowns |-> [k \in Kinds |-> 0]]

state_of(index) ==
    IF index \in DOMAIN account_states THEN account_states[index] ELSE EmptyState

\* faulty variant: the account is still held back at the instant itself
in_cooldown_through(index, now_ts) ==
    LET cooldown_until == state_of(index).cooldown_until
    IN  IF cooldown_until = 0 THEN FALSE ELSE now_ts <= cooldown_until

_is_in_cooldown(index, now_ts) ==
    LET cooldown_until == state_of(index).cooldown_until
    IN  IF cooldown_until = 0 THEN FALSE ELSE now_ts < cooldown_until

\* faulty variant: any kind's cooldown blocks every kind
any_quota_type_in_cooldown(index, quota_type, now_ts) ==
    \E k \in Kinds : now_ts < account_states[index].quota_type_cooldowns[k]

_is_quota_type_in_cooldown(index, quota_type, now_ts) ==
    LET cooldown_until == state_of(index).quota_type_cooldowns[quota_type]
    IN  IF cooldown_until = 0 THEN FALSE ELSE now_ts < cooldown_until

is_account_available(index, quota_type) ==
    /\ state_of(index).available
    /\ ~_is_in_cooldown(index, now)
    /\ (quota_type # NoKind => ~_is_quota_type_in_cooldown(index, quota_type, now))

\* the indices get_available_accounts appends, as a set ...
AvailableSet(quota_type) ==
    {i \in Indices :
        /\ state_of(i).available
        /\ ~_is_in_cooldown(i, now)
        /\ (quota_type # NoKind => ~_is_quota_type_in_cooldown(i, quota_type, now))}

\* ... and in list order (enumerate(self.accounts))
RECURSIVE SortedSeq(_)
SortedSeq(S) ==
    IF S = {} THEN <<>>
    ELSE LET m == CHOOSE x \in S : \A y \in S : x <= y
         IN  <<m>> \o SortedSeq(S \ {m})

get_available_accounts(quota_type) == SortedSeq(AvailableSet(quota_type))

-----------------------------------------------------------------------------
\* The state after AccountManager() and the load_config of startup, for a
\* store holding the accounts I, all of them enabled; the error rings of the
\* accounts O are observed (no pool operation reads a ring, so the other
\* specifications leave every ring out)
InitFollowed(I, O, C, W, F) ==
    /\ now = StartTs
    /\ use_database \in BOOLEAN
    /\ auto_refresh \in BOOLEAN
    /\ accounts = [i \in I |-> NewAccount(TRUE)]
    /\ stored = [i \in I |-> NewAccount(TRUE)]
    /\ account_states = [i \in I |-> InitState(NewAccount(TRUE))]
    /\ current_index = 0
    /\ refresh_event = FALSE
    /\ worker_pc = "wait"
    /\ unserved_signal = FALSE
    /\ sel_log = <<>>
    /\ quota_errors = [i \in O |-> <<>>]
    /\ recorded_errors = [i \in O |-> <<>>]
    /\ error_calls = [i \in C |-> 0]
    /\ stale_fetch = [t \in W |-> FALSE]
    /\ conversation_sessions = [i \in F |-> [c \in ConvIds |-> 0]]
    /\ t_conv = [t \in Threads |-> NoConv]
    /\ cleared_sessions = {}
    /\ pc = [t \in Threads |-> "idle"]
    /\ t_acc = [t \in Threads |-> 0]
    /\ t_jwt = [t \in Threads |-> 0]
    /\ t_jwt_time = [t \in Threads |-> 0]
    /\ t_session = [t \in Threads |-> 0]
    /\ oxsrf_inflight = [i \in I |-> 0]
    /\ next_token = 1

InitWatched(I, O, C, W) == InitFollowed(I, O, C, W, {})

InitCounted(I, O, C) == InitWatched(I, O, C, {})

InitObserved(I, O) == InitCounted(I, O, {})

\* no chat request is being answered
GenUnused ==
    /\ gen_pc = "unused"
    /\ streaming = FALSE
    /\ has_ids = FALSE
    /\ replies = <<>>
    /\ current_session = FALSE
    /\ next_reply = 1
    /\ emitted = <<>>
    /\ texts = <<>>
    /\ images = <<>>
    /\ file_ids_list = <<>>
    /\ next_file = 1

\* no upstream response is being read
StreamUnused ==
    /\ text_left = <<>>
    /\ buffer = <<>>
    /\ decoded = <<>>
    /\ elements = <<>>
    /\ GenUnused

InitPool(I) == InitObserved(I, {}) /\ StreamUnused

\* faulty variant: the session request is sent without the lock being held
lock_not_taken == TRUE

\* account_manager.lock (threading.Lock) can be acquired: the only holder that
\* keeps it across steps is a thread inside create_chat_session, which
\* ensure_session_for_account calls with the lock held (session_manager 156-192)
lock_free == \A t \in Threads : pc[t] # "creating"

Tick ==
    /\ now + TickSeconds <= MaxNow
    /\ now' = now + TickSeconds
    /\ UNCHANGED <<use_database, auto_refresh, signalVars, convVars, streamVars, ringVars, poolVars, threadVars>>

-----------------------------------------------------------------------------
(* Pool operations.  Each action is one call: the critical section under   *)
(* account_manager.lock followed by the save_config the call ends with.    *)

\* the state dict after "cooldown_until", "cooldown_reason" are set and the
\* cached credentials dropped (account_manager.py 533-540, 595-599)
WithCooldown(state, until, reason) ==
    [state EXCEPT !.cooldown_until = until, !.has_cooldown_key = TRUE,
                  !.cooldown_reason = reason,
                  !.jwt = 0, !.jwt_time = 0, !.session = 0]

\* the state dict after cooldown_until / cooldown_reason are popped
WithoutCooldown(state) ==
    [state EXCEPT !.cooldown_until = 0, !.has_cooldown_key = FALSE,
                  !.cooldown_reason = ""]

\* faulty variant: every status is handled as a rate limit
cooldown_seconds_rate_limit(status_code, quota_type, now_ts) ==
    RATE_LIMIT_COOLDOWN_SECONDS

cooldown_seconds_for(status_code, quota_type, now_ts) ==
    IF status_code = 429
    THEN IF quota_type # NoKind
         THEN seconds_until_next_pt_midnight(now_ts)
         ELSE RATE_LIMIT_COOLDOWN_SECONDS
    ELSE IF status_code \in {401, 403}
         THEN AUTH_ERROR_COOLDOWN_SECONDS
         ELSE GENERIC_ERROR_COOLDOWN_SECONDS

\* faulty variant: the early return is never taken
never_longer_cooldown(current_until, new_until, now_ts) == FALSE

\* "if current_until > now_ts and current_until >= new_until: return"
has_longer_cooldown(current_until, new_until, now_ts) ==
    current_until > now_ts /\ current_until >= new_until

\* mark_quota_error returns before it changes anything
quota_error_returns_early(state, status_code, quota_type, now_ts) ==
    LET new_until == now_ts + cooldown_seconds_for(status_code, quota_type, now_ts)
    IN  IF quota_type # NoKind
        THEN has_longer_cooldown(state.quota_type_cooldowns[quota_type], new_until, now_ts)
        ELSE has_longer_cooldown(state.cooldown_until, new_until, now_ts)

\* faulty variant: the whole-account branch is taken whatever the quota_type
quota_error_state_whole(state, status_code, quota_type, now_ts) ==
    WithCooldown(state,
                 Max(now_ts + cooldown_seconds_for(status_code, quota_type, now_ts),
                     state.cooldown_until),
                 ReasonOf(status_code))

\* account_states[index] when mark_quota_error returns
quota_error_state(state, status_code, quota_type, now_ts) ==
    LET new_until == now_ts + cooldown_seconds_for(status_code, quota_type, now_ts)
    IN  IF quota_error_returns_early(state, status_code, quota_type, now_ts)
        THEN state
        ELSE IF quota_type # NoKind
             THEN [state EXCEPT !.quota_type_cooldowns[quota_type] = Max(new_until, @)]
             ELSE WithCooldown(state, Max(new_until, state.cooldown_until),
                               ReasonOf(status_code))

\* accounts[index] when mark_quota_error returns
quota_error_account(acc, state, status_code, quota_type, now_ts) ==
    LET new_until == now_ts + cooldown_seconds_for(status_code, quota_type, now_ts)
    IN  IF quota_error_returns_early(state, status_code, quota_type, now_ts)
           \/ quota_type # NoKind
        THEN acc
        ELSE [acc EXCEPT !.cooldown_until = Max(new_until, state.cooldown_until),
                         !.unavailable_reason = ReasonOf(status_code)]

\* the quota_error dict of one call; the branch without quota type has no
\* "quota_type" key
quota_error_entry(status_code, quota_type, now_ts) ==
    [status_code |-> status_code, quota_type |-> quota_type, time |-> now_ts]

\* faulty variant: the list is never cut
record_quota_error_uncut(ring, quota_error) == Append(ring, quota_error)

\* quota_errors.append(quota_error), then only the last 5 are kept
record_quota_error(ring, quota_error) ==
    LET appended == Append(ring, quota_error)
    IN  IF Len(appended) > QUOTA_ERRORS_KEPT
        THEN SubSeq(appended, Len(appended) - QUOTA_ERRORS_KEPT + 1, Len(appended))
        ELSE appended

\* the cached session of the account is set to None
note_cleared(account) ==
    IF account \in DOMAIN conversation_sessions /\ account_states[account].session # 0
    THEN cleared_sessions \cup {account_states[account].session}
    ELSE cleared_sessions

\* the cached token of the account is cleared: the requests in flight for it
\* were sent before
mark_stale(account) ==
    [t \in DOMAIN stale_fetch |->
        stale_fetch[t] \/ (pc[t] = "fetching" /\ t_acc[t] = account)]

MarkQuotaError(index, status_code, quota_type) ==
    LET state == account_states[index]
        early == quota_error_returns_early(state, status_code, quota_type, now)
        quota_error == quota_error_entry(status_code, quota_type, now)
    IN  /\ lock_free
        /\ index \in DOMAIN error_calls => error_calls[index] < MaxCalls
        /\ error_calls' =
             IF index \in DOMAIN error_calls
             THEN [error_calls EXCEPT ![index] = @ + 1] ELSE error_calls
        /\ stale_fetch' =
             IF early \/ quota_type # NoKind THEN stale_fetch ELSE mark_stale(index)
        /\ cleared_sessions' =
             IF early \/ quota_type # NoKind THEN cleared_sessions ELSE note_cleared(index)
        /\ UNCHANGED <<conversation_sessions, t_conv>>
        /\ quota_errors' =
             IF early \/ index \notin DOMAIN quota_errors THEN quota_errors
             ELSE [quota_errors EXCEPT ![index] = record_quota_error(@, quota_error)]
        /\ recorded_errors' =
             IF early \/ index \notin DOMAIN recorded_errors THEN recorded_errors
             ELSE [recorded_errors EXCEPT ![index] = Append(@, quota_error)]
        /\ account_states' =
             [account_states EXCEPT
                ![index] = quota_error_state(state, status_code, quota_type, now)]
        /\ accounts' =
             [accounts EXCEPT
                ![index] = quota_error_account(@, state, status_code, quota_type, now)]
        /\ stored' = IF early THEN stored ELSE save_config(accounts')
        /\ UNCHANGED <<now, use_database, auto_refresh, signalVars, streamVars, current_index,
                       refresh_event, worker_pc, sel_log, threadVars>>

\* account_states[index] when mark_account_cooldown returns
account_cooldown_state(state, reason, cooldown_seconds, now_ts) ==
    LET new_until == now_ts + cooldown_seconds
    IN  IF has_longer_cooldown(state.cooldown_until, new_until, now_ts)
        THEN state
        ELSE WithCooldown(state, Max(new_until, state.cooldown_until), reason)

MarkAccountCooldown(index, cooldown_seconds) ==
    LET state == account_states[index]
        new_until == now + cooldown_seconds
        early == has_longer_cooldown(state.cooldown_until, new_until, now)
    IN  /\ lock_free
        /\ account_states' =
             [account_states EXCEPT
                ![index] = account_cooldown_state(state, "cooldown", cooldown_seconds, now)]
        /\ accounts' =
             IF early THEN accounts
             ELSE [accounts EXCEPT
                     ![index].cooldown_until = Max(new_until, state.cooldown_until),
                     ![index].unavailable_reason = "cooldown"]
        /\ stored' = IF early THEN stored ELSE save_config(accounts')
        /\ stale_fetch' = IF early THEN stale_fetch ELSE mark_stale(index)
        /\ cleared_sessions' = IF early THEN cleared_sessions ELSE note_cleared(index)
        /\ UNCHANGED <<conversation_sessions, t_conv>>
        /\ UNCHANGED <<now, use_database, auto_refresh, signalVars, streamVars, quota_errors,
                       recorded_errors, error_calls, current_index,
                       refresh_event, worker_pc, sel_log, threadVars>>

\* faulty variant: no reason is taken for an expired cookie
never_auth_reason(reason) == FALSE

\* '"401" in reason or "403" in reason or "认证失败" in reason': the reasons
\* are whole strings here, "auth failed (zh)" standing for the Chinese marker;
\* "manual" and "auth error" contain none of the three patterns
is_auth_reason(reason) == reason \in {"HTTP 401", "HTTP 403", "auth failed (zh)"}

MarkAccountUnavailable(index, reason) ==
    LET cookie_expired == is_auth_reason(reason)
    IN  lock_free /\
        IF index \notin DOMAIN accounts
        THEN UNCHANGED vars
        ELSE IF index \notin DOMAIN account_states
        THEN \* line 391 raises KeyError: the row is already written (388-390),
             \* nothing is saved
             /\ accounts' = [accounts EXCEPT ![index].available = FALSE,
                                             ![index].unavailable_reason = reason]
             /\ UNCHANGED <<now, use_database, auto_refresh, signalVars, convVars, streamVars, ringVars, stored,
                            account_states, current_index, refresh_event,
                            worker_pc, sel_log, threadVars>>
        ELSE /\ accounts' =
                  [accounts EXCEPT
                     ![index].available = FALSE,
                     ![index].unavailable_reason = reason,
                     ![index].cookie_expired = IF cookie_expired THEN TRUE ELSE @]
             /\ account_states' =
                  [account_states EXCEPT
                     ![index].available = FALSE,
                     ![index].cookie_expired = IF cookie_expired THEN TRUE ELSE @]
             /\ stored' = save_config(accounts')
             /\ refresh_event' = IF cookie_expired /\ auto_refresh THEN TRUE
                                 ELSE refresh_event
             /\ unserved_signal' = IF cookie_expired /\ auto_refresh THEN TRUE
                                   ELSE unserved_signal
             /\ UNCHANGED <<now, use_database, auto_refresh, convVars, streamVars, ringVars, current_index,
                            worker_pc, sel_log, threadVars>>

\* mark_account_unavailable ends in a KeyError: the index is in range and
\* has no account_states entry
mark_account_unavailable_raises(index) ==
    index \in DOMAIN accounts /\ index \notin DOMAIN account_states

\* faulty variant: the cached credentials are dropped with the cooldown
cookie_refreshed_state_cleared(state) ==
    [WithoutCooldown(state) EXCEPT !.cookie_expired = FALSE, !.available = TRUE,
                                   !.jwt = 0, !.jwt_time = 0, !.session = 0]

\* account_states[index] when mark_cookie_refreshed returns
cookie_refreshed_state(state) ==
    [WithoutCooldown(state) EXCEPT !.cookie_expired = FALSE, !.available = TRUE]

\* accounts[index] when mark_cookie_refreshed returns
cookie_refreshed_account(acc) ==
    [acc EXCEPT !.cookie_expired = FALSE, !.cooldown_until = 0, !.available = TRUE]

MarkCookieRefreshed(index) ==
    LET state == account_states[index]
        need_save == \/ accounts[index].cookie_expired
                     \/ state.has_cooldown_key
                     \/ accounts[index].cooldown_until # 0
    IN  /\ lock_free
        /\ accounts' = [accounts EXCEPT ![index] = cookie_refreshed_account(@)]
        /\ account_states' =
             [account_states EXCEPT ![index] = cookie_refreshed_state(state)]
        /\ stored' = IF need_save THEN save_config(accounts') ELSE stored
        /\ UNCHANGED <<now, use_database, auto_refresh, signalVars, convVars, streamVars, ringVars, current_index,
                       refresh_event, worker_pc, sel_log, threadVars>>

\* get_next_cooldown_info: the enabled account whose whole-account cooldown
\* ends first (the lower index on a tie), NoCooldownInfo for None
NoCooldownInfo == [index |-> NoAccount, cooldown_until |-> 0]

get_next_cooldown_info ==
    LET candidates == {i \in DOMAIN account_states :
                          /\ account_states[i].cooldown_until # 0
                          /\ account_states[i].cooldown_until > now
                          /\ account_states[i].available}
    IN  IF candidates = {} THEN NoCooldownInfo
        ELSE LET idx == CHOOSE i \in candidates :
                           \A j \in candidates :
                              \/ account_states[i].cooldown_until
                                    < account_states[j].cooldown_until
                              \/ /\ account_states[i].cooldown_until
                                       = account_states[j].cooldown_until
                                 /\ i <= j
             IN  [index |-> idx, cooldown_until |-> account_states[idx].cooldown_until]

\* the seconds NoAvailableAccount reports: "remaining" of get_next_account,
\* NoRemaining when the message carries no cooldown
NoRemaining == -1

no_available_remaining ==
    IF get_next_cooldown_info = NoCooldownInfo THEN NoRemaining
    ELSE Max(0, get_next_cooldown_info.cooldown_until - now)

\* what get_next_account returns: NoAccount stands for NoAvailableAccount
\* faulty variant: the cursor is taken as an index into the full account list
index_into_accounts(quota_type) ==
    IF Len(get_available_accounts(quota_type)) = 0 THEN NoAccount
    ELSE SortedSeq(Indices)[(current_index % Cardinality(Indices)) + 1]

SelectedIndex(quota_type) ==
    LET available == get_available_accounts(quota_type)
    IN  IF Len(available) = 0 THEN NoAccount
        ELSE available[(current_index % Len(available)) + 1]

\* faulty variant: the cursor is left where it was
KeepCursor(quota_type) == UNCHANGED current_index

\* "self.current_index = (self.current_index + 1) % len(available)"
AdvanceCursor(quota_type) ==
    LET n == Len(get_available_accounts(quota_type))
    IN  IF n = 0 THEN UNCHANGED current_index
        ELSE current_index' = ((current_index % n) + 1) % n

\* get_next_account; it returns SelectedIndex(quota_type), and raises
\* NoAvailableAccount when that is NoAccount
GetNextAccount(quota_type) ==
    /\ lock_free
    /\ AdvanceCursor(quota_type)
    /\ UNCHANGED <<now, use_database, auto_refresh, signalVars, convVars, streamVars, ringVars, accounts, stored,
                   account_states, refresh_event, worker_pc, sel_log, threadVars>>

\* the same call, with its result also appended to the log of selections
GetNextAccountLogged(quota_type) ==
    /\ Len(sel_log) < MaxCalls
    /\ lock_free
    /\ AdvanceCursor(quota_type)
    /\ sel_log' = Append(sel_log, [idx |-> SelectedIndex(quota_type),
                                   available |-> AvailableSet(quota_type)])
    /\ UNCHANGED <<now, use_database, auto_refresh, signalVars, convVars, streamVars, ringVars, accounts, stored,
                   account_states, refresh_event, worker_pc, threadVars>>

-----------------------------------------------------------------------------
(* Cookie refresh collaborator *)

\* cookie_refresh.auto_refresh_account_cookie, the write-back after new
\* cookies were obtained
AutoRefreshAccountCookie(index) ==
    LET state == account_states[index]
    IN  /\ accounts' =
             [accounts EXCEPT ![index].cookie_expired = FALSE,
                              ![index].cooldown_until = 0,
                              ![index].available = TRUE]
        /\ account_states' =
             [account_states EXCEPT
                ![index] = [WithoutCooldown(state) EXCEPT
                              !.jwt = 0, !.jwt_time = 0, !.session = 0,
                              !.cookie_expired = FALSE, !.available = TRUE]]
        /\ stored' = save_config(accounts')
        /\ stale_fetch' = mark_stale(index)
        /\ cleared_sessions' = note_cleared(index)
        /\ UNCHANGED <<conversation_sessions, t_conv>>
        /\ UNCHANGED <<now, use_database, auto_refresh, signalVars, streamVars, quota_errors,
                       recorded_errors, error_calls, current_index,
                       refresh_event, worker_pc, sel_log, threadVars>>

\* the account dict and state dict once a cookie is found invalid
ExpiredAccount(acc) == [acc EXCEPT !.cookie_expired = TRUE]
ExpiredState(state) == [state EXCEPT !.cookie_expired = TRUE]

\* cookie_refresh.maintain_browser_session: the refreshed cookie failed its
\* validation
MaintainBrowserSessionInvalid(index) ==
    /\ accounts' = [accounts EXCEPT ![index] = ExpiredAccount(@)]
    /\ account_states' =
         [account_states EXCEPT
            ![index] = [ExpiredState(@) EXCEPT
                          !.jwt = 0, !.jwt_time = 0, !.session = 0]]
    /\ stored' = save_config(accounts')
    /\ UNCHANGED <<now, use_database, auto_refresh, signalVars, convVars, streamVars, ringVars, current_index,
                   refresh_event, worker_pc, sel_log, threadVars>>

\* auto_refresh_expired_cookies_worker: wake up (event or timeout), clear the
\* event, verify the cookies: those in failed are marked expired
WorkerCheck(failed) ==
    /\ auto_refresh
    /\ worker_pc = "wait"
    /\ \A i \in failed : ~accounts[i].cookie_expired
    /\ refresh_event' = FALSE
    /\ unserved_signal' = FALSE
    /\ accounts' = [i \in Indices |->
                      IF i \in failed THEN ExpiredAccount(accounts[i]) ELSE accounts[i]]
    /\ account_states' = [i \in Indices |->
                      IF i \in failed THEN ExpiredState(account_states[i])
                      ELSE account_states[i]]
    /\ stored' = IF failed # {} THEN save_config(accounts') ELSE stored
    /\ worker_pc' = IF \E i \in Indices : accounts'[i].cookie_expired
                    THEN "batch" ELSE "wait"
    /\ UNCHANGED <<now, use_database, auto_refresh, convVars, streamVars, ringVars, current_index, sel_log,
                   threadVars>>

\* refresh_expired_accounts -> refresh_single_account -> save_to_config for
\* one expired account whose login succeeded
WorkerRefreshSingle(index) ==
    /\ worker_pc = "batch"
    /\ accounts[index].cookie_expired
    /\ accounts' = [accounts EXCEPT ![index].cookie_expired = FALSE,
                                    ![index].available = TRUE]
    /\ stored' = save_config(accounts')
    /\ UNCHANGED <<now, use_database, auto_refresh, signalVars, convVars, streamVars, ringVars, account_states, current_index,
                   refresh_event, worker_pc, sel_log, threadVars>>

\* save_to_config without account_index: a new account dict is appended and
\* the configuration saved; no account_states entry is made for it
SaveNewAccount ==
    LET index == Cardinality(DOMAIN accounts)
    IN  /\ index < MaxAccounts
        /\ accounts' = [i \in DOMAIN accounts \cup {index} |->
                           IF i = index THEN NewAccount(TRUE) ELSE accounts[i]]
        /\ stored' = save_config(accounts')
        /\ UNCHANGED <<now, use_database, auto_refresh, signalVars, convVars, streamVars, ringVars, account_states,
                       current_index, refresh_event, worker_pc, sel_log,
                       threadVars>>

\* an account dict with the cookies of the upstream identity name
NamedAccount(name) ==
    [available |-> TRUE, cookie_expired |-> FALSE, cooldown_until |-> 0,
     unavailable_reason |-> "", csesidx |-> name]

\* the upstream identities of the accounts, by index
identities(accs) == [i \in DOMAIN accs |-> accs[i].csesidx]

\* save_to_config without account_index for the account of a new upstream
\* identity: appended and saved, no account_states entry is made
SaveToConfig(name) ==
    LET index == Cardinality(DOMAIN accounts)
    IN  /\ index < MaxAccounts
        /\ \A i \in DOMAIN accounts : accounts[i].csesidx # name
        /\ accounts' = [i \in DOMAIN accounts \cup {index} |->
                           IF i = index THEN NamedAccount(name) ELSE accounts[i]]
        /\ stored' = save_config(accounts')
        /\ UNCHANGED <<now, use_database, auto_refresh, signalVars, convVars, streamVars, ringVars, account_states,
                       current_index, refresh_event, worker_pc, sel_log,
                       threadVars>>

\* what is left of a list by index when entry index is taken out
without(list, index) ==
    [j \in {i \in DOMAIN list : i + 1 \in DOMAIN list} |->
        IF j < index THEN list[j] ELSE list[j + 1]]

\* Account deletion: the account is taken out of the list, its runtime state
\* destroyed and the configuration saved
RemoveAccount(index) ==
    /\ lock_free
    /\ index \in DOMAIN accounts
    /\ accounts' = without(accounts, index)
    /\ account_states' =
         [j \in DOMAIN accounts' |->
             LET old == IF j < index THEN j ELSE j + 1
             IN  IF old \in DOMAIN account_states THEN account_states[old]
                 ELSE InitState(accounts'[j])]
    /\ stored' = save_config(accounts')
    /\ UNCHANGED <<now, use_database, auto_refresh, signalVars, convVars, streamVars, ringVars,
                   current_index, refresh_event, worker_pc, sel_log, threadVars>>

\* load_config: rows from the store, every runtime state rebuilt; the
\* database rows have no quota_errors, the JSON file has the saved lists
LoadedAccounts == stored

LoadConfig ==
    /\ accounts' = LoadedAccounts
    /\ quota_errors' = IF use_database
                       THEN [i \in DOMAIN quota_errors |-> <<>>] ELSE quota_errors
    /\ UNCHANGED <<recorded_errors, error_calls, stale_fetch>>
    /\ account_states' = [i \in DOMAIN stored |-> InitState(accounts'[i])]
    /\ UNCHANGED <<stored, current_index>>

\* _check_and_refresh_expired: the batch is over, reload the configuration
WorkerReload ==
    /\ worker_pc = "batch"
    /\ LoadConfig
    /\ worker_pc' = "wait"
    /\ UNCHANGED <<now, use_database, auto_refresh, signalVars, convVars, streamVars, refresh_event, sel_log,
                   threadVars>>

\* The worker loop step by step, for signals that arrive while it is busy.
\* _immediate_refresh_event.wait(timeout=CHECK_INTERVAL) returns True: the
\* event is set
WorkerWakeEvent ==
    /\ auto_refresh
    /\ worker_pc = "wait"
    /\ refresh_event
    /\ worker_pc' = "notified"
    /\ UNCHANGED <<now, use_database, auto_refresh, signalVars, convVars, streamVars, ringVars,
                   accounts, stored, account_states, current_index,
                   refresh_event, sel_log, threadVars>>

\* wait returns False: CHECK_INTERVAL passed without the event
WorkerWakeTimeout ==
    /\ auto_refresh
    /\ worker_pc = "wait"
    /\ ~refresh_event
    /\ worker_pc' = "woken"
    /\ UNCHANGED <<now, use_database, auto_refresh, signalVars, convVars, streamVars, ringVars,
                   accounts, stored, account_states, current_index,
                   refresh_event, sel_log, threadVars>>

\* _immediate_refresh_event.clear(), before the check (line 1561)
WorkerClear ==
    /\ worker_pc = "notified"
    /\ refresh_event' = FALSE
    /\ worker_pc' = "woken"
    /\ UNCHANGED <<now, use_database, auto_refresh, signalVars, convVars, streamVars, ringVars,
                   accounts, stored, account_states, current_index,
                   sel_log, threadVars>>

\* _check_and_refresh_expired() is entered: the pass starts
WorkerStartCheck ==
    /\ worker_pc = "woken"
    /\ worker_pc' = "checking"
    /\ unserved_signal' = FALSE
    /\ UNCHANGED <<now, use_database, auto_refresh, convVars, streamVars, ringVars,
                   accounts, stored, account_states, current_index,
                   refresh_event, sel_log, threadVars>>

\* faulty variant: the event is cleared when the pass is over
event_cleared_after_verify == FALSE

\* the event when the verification of the pass is over: the pass does not
\* touch it
event_after_verify == refresh_event

\* the pass verifies the cookies: those in failed are marked expired; the
\* batch refresh follows when an account is expired
WorkerVerify(failed) ==
    /\ worker_pc = "checking"
    /\ \A i \in failed : ~accounts[i].cookie_expired
    /\ refresh_event' = event_after_verify
    /\ accounts' = [i \in Indices |->
                      IF i \in failed THEN ExpiredAccount(accounts[i]) ELSE accounts[i]]
    /\ account_states' = [i \in Indices |->
                      IF i \in failed THEN ExpiredState(account_states[i])
                      ELSE account_states[i]]
    /\ stored' = IF failed # {} THEN save_config(accounts') ELSE stored
    /\ worker_pc' = IF \E i \in Indices : accounts'[i].cookie_expired
                    THEN "batch" ELSE "wait"
    /\ UNCHANGED <<now, use_database, auto_refresh, signalVars, convVars, streamVars, ringVars,
                   current_index, sel_log, threadVars>>

\* the pass raises: the loop prints the error, sleeps 60 s and waits again
WorkerPassRaises ==
    /\ worker_pc = "checking"
    /\ worker_pc' = "wait"
    /\ UNCHANGED <<now, use_database, auto_refresh, signalVars, convVars, streamVars, ringVars,
                   accounts, stored, account_states, current_index,
                   refresh_event, sel_log, threadVars>>

-----------------------------------------------------------------------------
(* Request threads: session_manager.ensure_jwt_for_account and             *)
(* ensure_session_for_account                                              *)

\* faulty variant: a token is fetched again from the age of 240 s on
need_refresh_from_max_age(state, now_ts) ==
    state.jwt = 0 \/ now_ts - state.jwt_time >= JWT_MAX_AGE

\* the check under the lock (lines 41-47)
need_refresh(state, now_ts) ==
    state.jwt = 0 \/ now_ts - state.jwt_time > JWT_MAX_AGE

\* first critical section; a stale cache sends the getoxsrf request
JwtCheck(t, account_idx) ==
    LET state == account_states[account_idx]
    IN  /\ pc[t] \in {"idle", "done"}
        /\ lock_free
        /\ t_acc' = [t_acc EXCEPT ![t] = account_idx]
        /\ t_session' = [t_session EXCEPT ![t] = 0]
        /\ IF need_refresh(state, now)
           THEN /\ pc' = [pc EXCEPT ![t] = "fetching"]
                /\ t_jwt' = [t_jwt EXCEPT ![t] = 0]
                /\ t_jwt_time' = [t_jwt_time EXCEPT ![t] = 0]
                /\ oxsrf_inflight' = [oxsrf_inflight EXCEPT ![account_idx] = @ + 1]
           ELSE /\ pc' = [pc EXCEPT ![t] = "done"]
                /\ t_jwt' = [t_jwt EXCEPT ![t] = state.jwt]
                /\ t_jwt_time' = [t_jwt_time EXCEPT ![t] = state.jwt_time]
                /\ UNCHANGED oxsrf_inflight
        /\ stale_fetch' = IF t \in DOMAIN stale_fetch
                          THEN [stale_fetch EXCEPT ![t] = FALSE] ELSE stale_fetch
        /\ UNCHANGED <<now, use_database, auto_refresh, signalVars, convVars, streamVars, quota_errors,
                       recorded_errors, error_calls, poolVars, next_token>>

\* faulty variant: the cached session outlives the new token
jwt_stored_state_keeping(state, new_jwt, now_ts) ==
    [state EXCEPT !.jwt = new_jwt, !.jwt_time = now_ts]

\* account_states[account_idx] after the write-back of lines 62-71: the new
\* token, its time, and the old session dropped as not matching the new token
jwt_stored_state(state, new_jwt, now_ts) ==
    [state EXCEPT !.jwt = new_jwt, !.jwt_time = now_ts, !.session = 0]

\* the request returned a keyId: second critical section (lines 62-71)
JwtStore(t) ==
    LET a == t_acc[t]
    IN  /\ pc[t] = "fetching"
        /\ lock_free
        /\ next_token <= MaxTokens
        /\ next_token' = next_token + 1
        /\ oxsrf_inflight' = [oxsrf_inflight EXCEPT ![a] = @ - 1]
        /\ account_states' =
             [account_states EXCEPT ![a] = jwt_stored_state(@, next_token, now)]
        /\ t_jwt' = [t_jwt EXCEPT ![t] = next_token]
        /\ t_jwt_time' = [t_jwt_time EXCEPT ![t] = now]
        /\ pc' = [pc EXCEPT ![t] = "done"]
        /\ cleared_sessions' = note_cleared(a)
        /\ UNCHANGED <<conversation_sessions, t_conv>>
        /\ UNCHANGED <<now, use_database, auto_refresh, signalVars, streamVars, ringVars, accounts, stored,
                       current_index, refresh_event, worker_pc, sel_log, t_acc,
                       t_session>>

\* the request failed: the exception propagates
JwtFail(t) ==
    /\ pc[t] = "fetching"
    /\ oxsrf_inflight' = [oxsrf_inflight EXCEPT ![t_acc[t]] = @ - 1]
    /\ pc' = [pc EXCEPT ![t] = "idle"]
    /\ UNCHANGED <<now, use_database, auto_refresh, signalVars, convVars, streamVars, ringVars, poolVars, t_acc, t_jwt,
                   t_jwt_time, t_session, next_token>>

\* ensure_session_for_account after its JWT (lines 156-213, force_new False,
\* no conversation_id), a session being cached: it is returned under the lock
EnsureSession(t) ==
    LET a == t_acc[t]
    IN  /\ pc[t] = "done"
        /\ lock_free
        /\ account_states[a].session # 0
        /\ t_session' = [t_session EXCEPT ![t] = account_states[a].session]
        /\ pc' = [pc EXCEPT ![t] = "idle"]
        /\ UNCHANGED <<now, use_database, auto_refresh, signalVars, convVars, streamVars, ringVars, poolVars,
                       t_acc, t_jwt, t_jwt_time, oxsrf_inflight, next_token>>

\* the same call, no session being cached: the lock is taken and
\* create_chat_session sends its request with the lock held (line 192)
CreateSessionSend(t) ==
    LET a == t_acc[t]
    IN  /\ pc[t] = "done"
        /\ lock_free
        /\ account_states[a].session = 0
        /\ pc' = [pc EXCEPT ![t] = "creating"]
        /\ UNCHANGED <<now, use_database, auto_refresh, signalVars, convVars, streamVars, ringVars, poolVars,
                       t_acc, t_jwt, t_jwt_time, t_session, oxsrf_inflight, next_token>>

\* the request returned a session name: it is cached and the lock released
CreateSessionStore(t) ==
    LET a == t_acc[t]
    IN  /\ pc[t] = "creating"
        /\ next_token <= MaxTokens
        /\ next_token' = next_token + 1
        /\ account_states' = [account_states EXCEPT ![a].session = next_token]
        /\ t_session' = [t_session EXCEPT ![t] = next_token]
        /\ pc' = [pc EXCEPT ![t] = "idle"]
        /\ UNCHANGED <<now, use_database, auto_refresh, signalVars, convVars, streamVars, ringVars, accounts, stored,
                       current_index, refresh_event, worker_pc, sel_log,
                       t_acc, t_jwt, t_jwt_time, oxsrf_inflight>>

\* the request failed: the exception propagates and releases the lock
CreateSessionFail(t) ==
    /\ pc[t] = "creating"
    /\ pc' = [pc EXCEPT ![t] = "idle"]
    /\ UNCHANGED <<now, use_database, auto_refresh, signalVars, convVars, streamVars, ringVars, poolVars,
                   t_acc, t_jwt, t_jwt_time, t_session, oxsrf_inflight, next_token>>

\* ensure_session_for_account(account_idx, account, force_new, conversation_id)
\* for a followed account, from the lock on.  The session kept for the
\* conversation is returned as it is unless force_new is set (lines 162-168)
reuses_conversation(a, force_new, conv) ==
    conv # NoConv /\ ~force_new /\ conversation_sessions[a][conv] # 0

\* the session kept for the conversation
conversation_session(a, conv) == conversation_sessions[a][conv]

\* the branches that send no request: the conversation's session, or the
\* cached session, which is then kept for the conversation (lines 203-209)
EnsureSessionFor(t, force_new, conv) ==
    LET a == t_acc[t]
        state == account_states[a]
    IN  /\ pc[t] = "done"
        /\ lock_free
        /\ \/ /\ reuses_conversation(a, force_new, conv)
              /\ t_session' = [t_session EXCEPT ![t] = conversation_session(a, conv)]
              /\ UNCHANGED conversation_sessions
           \/ /\ ~reuses_conversation(a, force_new, conv)
              /\ ~force_new /\ state.session # 0
              /\ t_session' = [t_session EXCEPT ![t] = state.session]
              /\ conversation_sessions' =
                   IF conv # NoConv
                   THEN [conversation_sessions EXCEPT ![a][conv] = state.session]
                   ELSE conversation_sessions
        /\ t_conv' = [t_conv EXCEPT ![t] = conv]
        /\ pc' = [pc EXCEPT ![t] = "idle"]
        /\ UNCHANGED <<now, use_database, auto_refresh, signalVars, cleared_sessions, streamVars,
                       ringVars, poolVars, t_acc, t_jwt, t_jwt_time, oxsrf_inflight,
                       next_token>>

\* conversation_sessions when create_chat_session is called: force_new has
\* deleted the session of the conversation (lines 180-185)
map_before_create(a, force_new, conv) ==
    IF force_new /\ conv # NoConv
    THEN [conversation_sessions EXCEPT ![a][conv] = 0]
    ELSE conversation_sessions

\* force_new, or no session cached: create_chat_session sends its request
\* with the lock held (line 192)
CreateSessionSendFor(t, force_new, conv) ==
    LET a == t_acc[t]
    IN  /\ pc[t] = "done"
        /\ lock_free
        /\ ~reuses_conversation(a, force_new, conv)
        /\ force_new \/ account_states[a].session = 0
        /\ conversation_sessions' = map_before_create(a, force_new, conv)
        /\ t_conv' = [t_conv EXCEPT ![t] = conv]
        /\ pc' = [pc EXCEPT ![t] = "creating"]
        /\ UNCHANGED <<now, use_database, auto_refresh, signalVars, cleared_sessions, streamVars,
                       ringVars, poolVars, t_acc, t_jwt, t_jwt_time, t_session,
                       oxsrf_inflight, next_token>>

\* the request returned a session name: it is kept for the conversation and
\* cached (lines 195-201), and the lock released
CreateSessionStoreFor(t) ==
    LET a == t_acc[t]
        conv == t_conv[t]
    IN  /\ pc[t] = "creating"
        /\ next_token <= MaxTokens
        /\ next_token' = next_token + 1
        /\ conversation_sessions' =
             IF conv # NoConv
             THEN [conversation_sessions EXCEPT ![a][conv] = next_token]
             ELSE conversation_sessions
        /\ account_states' = [account_states EXCEPT ![a].session = next_token]
        /\ t_session' = [t_session EXCEPT ![t] = next_token]
        /\ pc' = [pc EXCEPT ![t] = "idle"]
        /\ UNCHANGED <<now, use_database, auto_refresh, signalVars, t_conv, cleared_sessions,
                       streamVars, ringVars, accounts, stored,
                       current_index, refresh_event, worker_pc, sel_log,
                       t_acc, t_jwt, t_jwt_time, oxsrf_inflight>>

\* stream_chat_realtime_generator(jwt, sess_name, ...) with the jwt and the
\* session ensure_session_for_account returned: the stream-assist request
StreamAssist(t) ==
    /\ pc[t] = "idle"
    /\ t_session[t] # 0
    /\ pc' = [pc EXCEPT ![t] = "streaming"]
    /\ UNCHANGED <<now, use_database, auto_refresh, signalVars, convVars, streamVars, ringVars, poolVars,
                   t_acc, t_jwt, t_jwt_time, t_session, oxsrf_inflight, next_token>>

\* the stream is over and named files by fileId: get_session_file_metadata
\* with the same jwt
ListFileMetadata(t) ==
    /\ pc[t] = "streaming"
    /\ pc' = [pc EXCEPT ![t] = "downloading"]
    /\ UNCHANGED <<now, use_database, auto_refresh, signalVars, convVars, streamVars, ringVars, poolVars,
                   t_acc, t_jwt, t_jwt_time, t_session, oxsrf_inflight, next_token>>

\* one file of file_ids_list is downloaded with the same jwt; after the last
\* one the generator ends
DownloadFile(t, last) ==
    /\ pc[t] = "downloading"
    /\ pc' = [pc EXCEPT ![t] = IF last THEN "idle" ELSE "downloading"]
    /\ t_session' = [t_session EXCEPT ![t] = IF last THEN 0 ELSE @]
    /\ UNCHANGED <<now, use_database, auto_refresh, signalVars, convVars, streamVars, ringVars, poolVars,
                   t_acc, t_jwt, t_jwt_time, oxsrf_inflight, next_token>>

\* the stream named no file: the generator ends after the stream
StreamEnd(t) ==
    /\ pc[t] = "streaming"
    /\ pc' = [pc EXCEPT ![t] = "idle"]
    /\ t_session' = [t_session EXCEPT ![t] = 0]
    /\ UNCHANGED <<now, use_database, auto_refresh, signalVars, convVars, streamVars, ringVars, poolVars,
                   t_acc, t_jwt, t_jwt_time, oxsrf_inflight, next_token>>

\* create-session requests of an account that are in flight
sessions_inflight(a) == Cardinality({t \in Threads : pc[t] = "creating" /\ t_acc[t] = a})

-----------------------------------------------------------------------------
(* chat_handler.JSONStreamParser.  Text is a sequence of characters; "x"   *)
(* is a scalar, a member of an object is written without its key.          *)

Whitespace == {" ", "\n"}

\* str.lstrip()
RECURSIVE lstrip(_)
lstrip(text) ==
    IF text # <<>> /\ Head(text) \in Whitespace THEN lstrip(Tail(text)) ELSE text

\* results of json.JSONDecoder.raw_decode at a position: the index after the
\* value, or one of the two ways it raises JSONDecodeError
UnexpectedEnd == 0
Malformed == -1

\* index of the first non-blank character from i on
RECURSIVE skip_blanks(_, _)
skip_blanks(text, i) ==
    IF i <= Len(text) /\ text[i] \in Whitespace THEN skip_blanks(text, i + 1) ELSE i

\* index after the closing quote of the string whose content starts at i
RECURSIVE string_end(_, _)
string_end(text, i) ==
    IF i > Len(text) THEN UnexpectedEnd
    ELSE IF text[i] = "\"" THEN i + 1
    ELSE string_end(text, i + 1)

\* index after the JSON value starting at i; items_end is the rest of an
\* object or array after its opening bracket, first telling whether a value
\* has to come next
RECURSIVE value_end(_, _)
RECURSIVE items_end(_, _, _, _)
value_end(text, i) ==
    IF i > Len(text) THEN UnexpectedEnd
    ELSE IF text[i] = "x" THEN i + 1
    ELSE IF text[i] = "\"" THEN string_end(text, i + 1)
    ELSE IF text[i] = "{" THEN items_end(text, skip_blanks(text, i + 1), "}", TRUE)
    ELSE IF text[i] = "[" THEN items_end(text, skip_blanks(text, i + 1), "]", TRUE)
    ELSE Malformed

items_end(text, i, close, first) ==
    IF i > Len(text) THEN UnexpectedEnd
    ELSE IF first /\ text[i] = close THEN i + 1
    ELSE LET after == value_end(text, i)
             next == skip_blanks(text, after)
         IN  IF after <= 0 THEN after
             ELSE IF next > Len(text) THEN UnexpectedEnd
             ELSE IF text[next] = close THEN next + 1
             ELSE IF text[next] = ","
                  THEN items_end(text, skip_blanks(text, next + 1), close, FALSE)
             ELSE Malformed

\* decoder.raw_decode(self.buffer): the end index of the value at the start
raw_decode(text) == value_end(text, 1)

\* faulty variant: what could not be parsed is thrown away
RECURSIVE decode_loop_dropping(_, _)
decode_loop_dropping(buf, results) ==
    LET stripped == lstrip(buf)
    IN  IF stripped # <<>> /\ Head(stripped) \in {"[", ","}
        THEN decode_loop_dropping(Tail(stripped), results)
        ELSE IF stripped = <<>> THEN [buffer |-> stripped, results |-> results]
        ELSE LET idx == raw_decode(stripped)
             IN  IF idx > 0
                 THEN decode_loop_dropping(SubSeq(stripped, idx, Len(stripped)),
                                           Append(results, SubSeq(stripped, 1, idx - 1)))
                 ELSE [buffer |-> <<>>, results |-> results]

\* the while loop of decode: the buffer it leaves and the objects it returns;
\* an object is identified by its text
RECURSIVE decode_loop(_, _)
decode_loop(buf, results) ==
    LET stripped == lstrip(buf)
    IN  IF stripped # <<>> /\ Head(stripped) \in {"[", ","}
        THEN decode_loop(Tail(stripped), results)
        ELSE IF stripped = <<>> THEN [buffer |-> stripped, results |-> results]
        ELSE LET idx == raw_decode(stripped)
             IN  IF idx > 0
                 THEN decode_loop(SubSeq(stripped, idx, Len(stripped)),
                                  Append(results, SubSeq(stripped, 1, idx - 1)))
                 ELSE \* json.JSONDecodeError of either kind: break
                      [buffer |-> stripped, results |-> results]

\* JSONStreamParser.decode(chunk)
decode(buf, chunk) == decode_loop(buf \o chunk, <<>>)

\* the objects an upstream array is made of: a flat object, a nested object,
\* an object holding an array, an object holding a string with brackets
ElementTexts ==
    { <<"{", "x", "}">>,
      <<"{", "{", "x", "}", ",", "x", "}">>,
      <<"{", "[", "x", ",", "x", "]", "}">>,
      <<"{", "\"", "}", "[", "\"", "}">> }

Separators == { <<",">>, <<",", "\n">> }

\* json text of the array es with the separator sep
RECURSIVE joined(_, _)
joined(es, sep) ==
    IF es = <<>> THEN <<>>
    ELSE IF Len(es) = 1 THEN es[1]
    ELSE es[1] \o sep \o joined(Tail(es), sep)

serialized(es, sep) == <<"[">> \o joined(es, sep) \o <<"]">>

ElementSeqs == UNION {[1 .. n -> ElementTexts] : n \in 0 .. MaxElems}

\* the length of the longest response text
MaxText == 2 + MaxElems * 9

\* the response body is about to be read
InitDecoder ==
    /\ InitObserved({0}, {})
    /\ use_database /\ ~auto_refresh
    /\ elements \in ElementSeqs
    /\ \E sep \in Separators : text_left = serialized(elements, sep)
    /\ buffer = <<>>
    /\ decoded = <<>>
    /\ GenUnused

\* iter_content hands over the next n characters and decode is called on them
Feed(n) ==
    LET chunk == SubSeq(text_left, 1, n)
        r == decode(buffer, chunk)
    IN  /\ n \in 1 .. Len(text_left)
        /\ text_left' = SubSeq(text_left, n + 1, Len(text_left))
        /\ buffer' = r.buffer
        /\ decoded' = decoded \o r.results
        /\ UNCHANGED <<accountVars, elements, genVars>>

NextDecoder == \E n \in 1 .. MaxText : Feed(n)

SpecDecoder == InitDecoder /\ [][NextDecoder]_vars

\* elements that are not JSON: an object lacking a comma, a stray brace
DamagedTexts == { <<"{", "x", "x", "}">>, <<"}">> }

DamagedSeqs ==
    UNION {[1 .. n -> ElementTexts \cup DamagedTexts] : n \in 0 .. MaxElems}

\* the response body holds elements that may be damaged
InitDamaged ==
    /\ InitObserved({0}, {})
    /\ use_database /\ ~auto_refresh
    /\ elements \in DamagedSeqs
    /\ \E sep \in Separators : text_left = serialized(elements, sep)
    /\ buffer = <<>>
    /\ decoded = <<>>
    /\ GenUnused

SpecDamaged == InitDamaged /\ [][NextDecoder]_vars

-----------------------------------------------------------------------------
(* chat_handler.stream_chat_realtime_generator and stream_chat_with_images, *)
(* reply by reply.  In a text "N" is the phrase "Image generated by Nano    *)
(* Banana Pro", "~" the fence ``` and "~j" the fence ```json.               *)

\* str.rstrip() and str.strip()
RECURSIVE rstrip(_)
rstrip(text) ==
    IF text # <<>> /\ text[Len(text)] \in Whitespace
    THEN rstrip(SubSeq(text, 1, Len(text) - 1)) ELSE text

strip(text) == rstrip(lstrip(text))

\* text.startswith("**")
startswith_stars(text) == Len(text) >= 2 /\ text[1] = "*" /\ text[2] = "*"

\* "Image generated by Nano Banana Pro" in text
has_noise(text) == \E i \in 1 .. Len(text) : text[i] = "N"

\* text.split('\n')
RECURSIVE split_lines(_, _)
split_lines(text, line) ==
    IF text = <<>> THEN <<line>>
    ELSE IF Head(text) = "\n" THEN <<line>> \o split_lines(Tail(text), <<>>)
    ELSE split_lines(Tail(text), Append(line, Head(text)))

\* '\n'.join(lines)
RECURSIVE join_lines(_)
join_lines(lines) ==
    IF lines = <<>> THEN <<>>
    ELSE IF Len(lines) = 1 THEN lines[1]
    ELSE lines[1] \o <<"\n">> \o join_lines(Tail(lines))

keep_line(line) == ~has_noise(strip(line))

\* filtered_text: the lines naming the image generator are taken out
filtered_text(text) ==
    IF has_noise(text)
    THEN strip(join_lines(SelectSeq(split_lines(text, <<>>), keep_line)))
    ELSE text

\* filtered_text.strip() in ["```json", "```"]
is_fence(text) == strip(text) \in { <<"~">>, <<"~", "j">> }

\* faulty variant: only the flag of the reply is looked at
thought_of_reply_only(reply) == reply.thought_reply

\* thought = reply.get("thought", False) or content.get("thought", False)
thought(reply) == reply.thought_reply \/ reply.thought_content

\* the text forwarded for a reply, <<>> when nothing is forwarded
text_delta(reply) ==
    IF reply.text # <<>> /\ ~thought(reply) /\ ~startswith_stars(strip(reply.text))
    THEN IF is_fence(filtered_text(reply.text)) THEN <<>>
         ELSE filtered_text(reply.text)
    ELSE <<>>

\* the chunks the generator yields; src is the reply a chunk was made from
role_chunk == [kind |-> "role", content |-> <<>>, src |-> 0]
text_chunk(content, src) == [kind |-> "text", content |-> content, src |-> src]
image_chunk(src) == [kind |-> "media", content |-> <<"\n", "url", "\n">>, src |-> src]
end_chunk == [kind |-> "stop", content |-> <<>>, src |-> 0]
done_line == [kind |-> "done", content |-> <<>>, src |-> 0]

\* faulty variant: a chunk overtakes what was yielded before it
yield_first(out, chunk) == <<chunk>> \o out

\* yield
yield(out, chunk) == Append(out, chunk)

\* the generator yields only when it was given chat_id, created and model_name
sse == streaming /\ has_ids

MediaKinds == {"none", "inline", "attachment", "file"}

\* replies with text only: plain, thought headings, noise lines, fences
TextSamples ==
    { <<>>, <<"h">>, <<"*", "*", "h">>, <<" ", "*", "*", "h">>, <<"*", "h">>,
      <<"N", "\n", "h">>, <<"N">>, <<"~", "j">> }

TextReplies ==
    { [text |-> x, thought_reply |-> a, thought_content |-> b, media |-> "none"] :
        x \in TextSamples, a \in BOOLEAN, b \in BOOLEAN }

\* replies that carry media, with or without text
MediaReplies ==
    { [text |-> x, thought_reply |-> FALSE, thought_content |-> FALSE, media |-> m] :
        x \in { <<>>, <<"h">> }, m \in MediaKinds }

ReplySeqs(R) == UNION {[1 .. n -> R] : n \in 0 .. MaxReplies}

\* the function is called for a response made of replies from R
InitGen(R) ==
    /\ InitObserved({0}, {})
    /\ use_database /\ ~auto_refresh
    /\ text_left = <<>> /\ buffer = <<>> /\ decoded = <<>> /\ elements = <<>>
    /\ gen_pc = "start"
    /\ streaming \in BOOLEAN
    /\ has_ids \in BOOLEAN
    /\ replies \in ReplySeqs(R)
    /\ current_session \in BOOLEAN
    /\ next_reply = 1
    /\ emitted = <<>>
    /\ texts = <<>>
    /\ images = <<>>
    /\ file_ids_list = <<>>
    /\ next_file = 1

\* the role marker is sent before the upstream request
GenStart ==
    /\ gen_pc = "start"
    /\ gen_pc' = "post"
    /\ emitted' = IF sse THEN yield(emitted, role_chunk) ELSE emitted
    /\ UNCHANGED <<accountVars, text_left, buffer, decoded, elements, streaming,
                   has_ids, replies, current_session, next_reply, texts, images,
                   file_ids_list, next_file>>

\* requests.post(STREAM_ASSIST_URL): a transport error or a status other than
\* 200 raises out of the function
GenPost(outcome) ==
    /\ gen_pc = "post"
    /\ gen_pc' = IF outcome = "ok" THEN "read" ELSE "raised"
    /\ UNCHANGED <<accountVars, text_left, buffer, decoded, elements, streaming,
                   has_ids, replies, current_session, next_reply, emitted, texts,
                   images, file_ids_list, next_file>>

\* one reply of a decoded object: media is collected (inline data and
\* attachments are materialised at once, which may fail), then the text
GenReply(ok) ==
    LET reply == replies[next_reply]
        delta == text_delta(reply)
    IN  /\ gen_pc = "read"
        /\ next_reply <= Len(replies)
        /\ ok \/ reply.media \in {"inline", "attachment"}
        /\ next_reply' = next_reply + 1
        /\ file_ids_list' = IF reply.media = "file"
                            THEN Append(file_ids_list, next_reply) ELSE file_ids_list
        /\ images' = IF reply.media \in {"inline", "attachment"} /\ ok
                     THEN Append(images, next_reply) ELSE images
        /\ emitted' = IF sse /\ delta # <<>>
                      THEN yield(emitted, text_chunk(delta, next_reply)) ELSE emitted
        /\ texts' = IF ~streaming /\ delta # <<>>
                    THEN Append(texts, text_chunk(delta, next_reply)) ELSE texts
        /\ UNCHANGED <<accountVars, text_left, buffer, decoded, elements, gen_pc,
                       streaming, has_ids, replies, current_session, next_file>>

\* the response is read: files are fetched if any were named and a session
\* was seen; get_session_file_metadata may fail, which skips them all
GenReadEnd(ok) ==
    /\ gen_pc = "read"
    /\ next_reply > Len(replies)
    /\ ok \/ (file_ids_list # <<>> /\ current_session)
    /\ gen_pc' = IF file_ids_list # <<>> /\ current_session /\ ok
                 THEN "files" ELSE "end"
    /\ UNCHANGED <<accountVars, text_left, buffer, decoded, elements, streaming,
                   has_ids, replies, current_session, next_reply, emitted, texts,
                   images, file_ids_list, next_file>>

\* faulty variant: a failed download ends the handling of the files
GenFileAborting(ok) ==
    /\ gen_pc = "files"
    /\ next_file <= Len(file_ids_list)
    /\ next_file' = next_file + 1
    /\ gen_pc' = IF ok THEN gen_pc ELSE "end"
    /\ images' = IF ok THEN Append(images, file_ids_list[next_file]) ELSE images
    /\ emitted' = IF ok /\ sse
                  THEN yield(emitted, image_chunk(file_ids_list[next_file]))
                  ELSE emitted
    /\ UNCHANGED <<accountVars, text_left, buffer, decoded, elements,
                   streaming, has_ids, replies, current_session, next_reply, texts,
                   file_ids_list>>

\* one file of file_ids_list: downloaded and stored or uploaded (ok), its URL
\* sent at once; or the download failed
GenFile(ok) ==
    /\ gen_pc = "files"
    /\ next_file <= Len(file_ids_list)
    /\ next_file' = next_file + 1
    /\ images' = IF ok THEN Append(images, file_ids_list[next_file]) ELSE images
    /\ emitted' = IF ok /\ sse
                  THEN yield(emitted, image_chunk(file_ids_list[next_file]))
                  ELSE emitted
    /\ UNCHANGED <<accountVars, text_left, buffer, decoded, elements, gen_pc,
                   streaming, has_ids, replies, current_session, next_reply, texts,
                   file_ids_list>>

\* every file of file_ids_list was handled
GenFilesEnd ==
    /\ gen_pc = "files"
    /\ next_file > Len(file_ids_list)
    /\ gen_pc' = "end"
    /\ UNCHANGED <<accountVars, text_left, buffer, decoded, elements, streaming,
                   has_ids, replies, current_session, next_reply, emitted, texts,
                   images, file_ids_list, next_file>>

\* the end marker and the [DONE] line
GenEnd ==
    /\ gen_pc = "end"
    /\ gen_pc' = "finished"
    /\ emitted' = IF sse THEN yield(yield(emitted, end_chunk), done_line) ELSE emitted
    /\ UNCHANGED <<accountVars, text_left, buffer, decoded, elements, streaming,
                   has_ids, replies, current_session, next_reply, texts, images,
                   file_ids_list, next_file>>

\* the SSE error chunk of the HTTP layer
error_chunk == [kind |-> "error", content |-> <<"upstream error">>, src |-> 0]

\* faulty variant: another account is tried whatever was sent
may_always_retry(out) == TRUE

\* the request may be retried on another account only before the first byte
may_retry(out) == out = <<>>

\* the HTTP layer that iterates the generator (not part of the sources at
\* hand, taken from the propagation policy): an exception out of the
\* generator is answered in-band with an error chunk and [DONE] once bytes
\* were sent; before the first byte the request may be retried or answered
\* with an HTTP error
RouteAfterRaise(retry) ==
    /\ gen_pc = "raised"
    /\ streaming
    /\ retry => may_retry(emitted)
    /\ gen_pc' = IF retry THEN "retry" ELSE "failed"
    /\ emitted' = IF emitted # <<>>
                  THEN yield(yield(emitted, error_chunk), done_line) ELSE emitted
    /\ UNCHANGED <<accountVars, text_left, buffer, decoded, elements, streaming,
                   has_ids, replies, current_session, next_reply, texts, images,
                   file_ids_list, next_file>>

NextGen ==
    \/ GenStart
    \/ \E retry \in BOOLEAN : RouteAfterRaise(retry)
    \/ \E outcome \in {"ok", "transport error", "status not 200"} : GenPost(outcome)
    \/ \E ok \in BOOLEAN : GenReply(ok)
    \/ \E ok \in BOOLEAN : GenReadEnd(ok)
    \/ \E ok \in BOOLEAN : GenFile(ok)
    \/ GenFilesEnd
    \/ GenEnd

\* responses of text replies
InitGenText == InitGen(TextReplies) /\ ~current_session

NextGenText ==
    \/ GenStart
    \/ \E outcome \in {"ok", "transport error", "status not 200"} : GenPost(outcome)
    \/ GenReply(TRUE)
    \/ GenReadEnd(TRUE)
    \/ GenEnd
    \/ \E retry \in BOOLEAN : RouteAfterRaise(retry)

SpecGenText == InitGenText /\ [][NextGenText]_vars

\* responses of replies with media
InitGenMedia == InitGen(MediaReplies)

SpecGenMedia == InitGenMedia /\ [][NextGen]_vars

-----------------------------------------------------------------------------
\* cooldown_seconds of mark_account_cooldown: the default and a longer one
CooldownChoices == {GENERIC_ERROR_COOLDOWN_SECONDS, AUTH_ERROR_COOLDOWN_SECONDS}

PoolNext ==
    \/ Tick
    \/ \E i \in Indices, s \in StatusCodes, k \in KindsOrNone : MarkQuotaError(i, s, k)
    \/ \E i \in Indices, d \in CooldownChoices : MarkAccountCooldown(i, d)
    \/ \E i \in Indices, r \in {"HTTP 401", "manual"} : MarkAccountUnavailable(i, r)
    \/ \E i \in Indices : MarkCookieRefreshed(i)
    \/ \E k \in KindsOrNone : GetNextAccount(k)
    \/ \E i \in Indices : AutoRefreshAccountCookie(i)
    \/ \E i \in Indices : MaintainBrowserSessionInvalid(i)
    \/ \E f \in SUBSET Indices : WorkerCheck(f)
    \/ \E i \in Indices : WorkerRefreshSingle(i)
    \/ WorkerReload

\* The pool of one account under every pool operation and the refresh worker
Init == InitPool({0})

Next == PoolNext

Spec == Init /\ [][Next]_vars

\* Request threads on one account: JWT and session caching against the
\* upstream errors reported through mark_quota_error
InitReq == InitPool({0}) /\ use_database /\ ~auto_refresh

NextReq ==
    \/ Tick
    \/ MarkQuotaError(0, 401, NoKind)
    \/ MarkQuotaError(0, 401, "text_queries")
    \/ MarkQuotaError(0, 429, "images")
    \/ \E t \in Threads : JwtCheck(t, 0)
    \/ \E t \in Threads : JwtStore(t)
    \/ \E t \in Threads : JwtFail(t)
    \/ \E t \in Threads : EnsureSession(t)
    \/ \E t \in Threads : CreateSessionSend(t)
    \/ \E t \in Threads : CreateSessionStore(t)
    \/ \E t \in Threads : CreateSessionFail(t)

SpecReq == InitReq /\ [][NextReq]_vars

\* Selection over two accounts, every result logged
InitSel == InitPool({0, 1}) /\ use_database /\ ~auto_refresh

NextSel ==
    \/ Tick
    \/ \E i \in Indices, k \in {NoKind, "images"} : MarkQuotaError(i, 429, k)
    \/ \E k \in KindsOrNone : GetNextAccountLogged(k)

SpecSel == InitSel /\ [][NextSel]_vars

\* selection over three accounts
InitCursor == InitPool({0, 1, 2}) /\ use_database /\ ~auto_refresh

NextCursor ==
    \/ Tick
    \/ \E i \in Indices : MarkQuotaError(i, 429, NoKind)
    \/ GetNextAccountLogged(NoKind)

SpecCursor == InitCursor /\ [][NextCursor]_vars

\* Two accounts, one request thread: cached credentials against upstream
\* errors and mark_cookie_refreshed
InitPair == InitPool({0, 1}) /\ use_database /\ ~auto_refresh

NextPair ==
    \/ Tick
    \/ \E i \in Indices : MarkQuotaError(i, 401, NoKind)
    \/ MarkQuotaError(1, 429, "images")
    \/ \E d \in CooldownChoices : MarkAccountCooldown(0, d)
    \/ \E i \in Indices : MarkCookieRefreshed(i)
    \/ \E k \in {NoKind, "images"} : GetNextAccount(k)
    \/ \E a \in Indices : JwtCheck(1, a)
    \/ JwtStore(1)
    \/ JwtFail(1)
    \/ EnsureSession(1)
    \/ CreateSessionSend(1)
    \/ CreateSessionStore(1)
    \/ CreateSessionFail(1)

SpecPair == InitPair /\ [][NextPair]_vars

\* One account and accounts appended at run time by save_to_config
InitAppend == InitPool({0})

NextAppend ==
    \/ Tick
    \/ SaveNewAccount
    \/ \E i \in 0 .. MaxAccounts, r \in {"HTTP 401", "manual"} :
          MarkAccountUnavailable(i, r)
    \/ \E k \in KindsOrNone : GetNextAccount(k)

SpecAppend == InitAppend /\ [][NextAppend]_vars

\* Chat turns on one account: the JWT and session of the turn, then the
\* upstream requests of stream_chat_realtime_generator
InitTurn == InitPool({0}) /\ use_database /\ ~auto_refresh

NextTurn ==
    \/ Tick
    \/ \E t \in Threads : JwtCheck(t, 0)
    \/ \E t \in Threads : JwtStore(t)
    \/ \E t \in Threads : JwtFail(t)
    \/ \E t \in Threads : EnsureSession(t)
    \/ \E t \in Threads : CreateSessionSend(t)
    \/ \E t \in Threads : CreateSessionStore(t)
    \/ \E t \in Threads : CreateSessionFail(t)
    \/ \E t \in Threads : StreamAssist(t)
    \/ \E t \in Threads : StreamEnd(t)
    \/ \E t \in Threads : ListFileMetadata(t)
    \/ \E t \in Threads, last \in BOOLEAN : DownloadFile(t, last)

SpecTurn == InitTurn /\ [][NextTurn]_vars

\* load_config called while the service runs (cookie_refresh 1541,
\* auto_login_with_email 1992) or started again (gemini.py 59)
ReloadConfig ==
    /\ lock_free
    /\ LoadConfig
    /\ UNCHANGED <<now, use_database, auto_refresh, signalVars, convVars, streamVars, refresh_event,
                   worker_pc, sel_log, threadVars>>

\* requests, errors and reloads on one account, in either storage mode
InitLoad == InitCounted({0}, {0}, {0}) /\ StreamUnused /\ ~auto_refresh

NextLoad ==
    \/ Tick
    \/ MarkQuotaError(0, 401, NoKind)
    \/ MarkQuotaError(0, 429, "images")
    \/ JwtCheck(1, 0)
    \/ JwtStore(1)
    \/ EnsureSession(1)
    \/ CreateSessionSend(1)
    \/ CreateSessionStore(1)
    \/ ReloadConfig

SpecLoad == InitLoad /\ [][NextLoad]_vars

\* calls of ensure_jwt_for_account around the age limit of the cached token
JwtWaits == {JWT_MAX_AGE - 1, JWT_MAX_AGE, JWT_MAX_AGE + 1}

\* time passes between two calls
Sleep(seconds) ==
    /\ now + seconds <= MaxNow
    /\ now' = now + seconds
    /\ UNCHANGED <<use_database, auto_refresh, signalVars, convVars, streamVars, ringVars, poolVars, threadVars>>

NextJwtAge ==
    \/ \E seconds \in JwtWaits : Sleep(seconds)
    \/ \E t \in Threads : JwtCheck(t, 0)
    \/ \E t \in Threads : JwtStore(t)
    \/ \E t \in Threads : JwtFail(t)

SpecJwtAge == InitTurn /\ [][NextJwtAge]_vars

\* upstream identities whose accounts are added
AccountNames == {"a", "b", "c"}

\* The account list in database mode, from empty: accounts are added,
\* updated and removed, and the configuration loaded again
InitStore == InitPool({}) /\ use_database /\ ~auto_refresh

NextStore ==
    \/ \E name \in AccountNames : SaveToConfig(name)
    \/ \E i \in 0 .. MaxAccounts - 1 : MarkAccountUnavailable(i, "manual")
    \/ \E i \in 0 .. MaxAccounts - 1 : RemoveAccount(i)
    \/ ReloadConfig

SpecStore == InitStore /\ [][NextStore]_vars

\* Two accounts marked unavailable while the refresh worker, enabled, goes
\* through its loop step by step
InitSignal == InitPool({0, 1}) /\ use_database /\ auto_refresh

NextSignal ==
    \/ \E i \in Indices, r \in {"HTTP 401", "manual"} : MarkAccountUnavailable(i, r)
    \/ WorkerWakeEvent
    \/ WorkerWakeTimeout
    \/ WorkerClear
    \/ WorkerStartCheck
    \/ \E f \in SUBSET Indices : WorkerVerify(f)
    \/ WorkerPassRaises
    \/ \E i \in Indices : WorkerRefreshSingle(i)
    \/ WorkerReload

\* The worker thread is running: each of its steps is taken once it can be.
\* Nothing is assumed of the timeout of the wait, nor of the callers.
SpecSignal ==
    /\ InitSignal
    /\ [][NextSignal]_vars
    /\ WF_vars(WorkerWakeEvent)
    /\ WF_vars(WorkerClear)
    /\ WF_vars(WorkerStartCheck)
    /\ WF_vars(WorkerPassRaises \/ \E f \in SUBSET Indices : WorkerVerify(f))
    /\ WF_vars(WorkerReload)

\* sessions of one account asked for with and without a conversation id
InitConv ==
    InitFollowed({0}, {}, {}, {}, {0}) /\ StreamUnused /\ use_database /\ ~auto_refresh

NextConv ==
    \/ Tick
    \/ MarkQuotaError(0, 401, NoKind)
    \/ \E t \in Threads : JwtCheck(t, 0)
    \/ \E t \in Threads : JwtStore(t)
    \/ \E t \in Threads : JwtFail(t)
    \/ \E t \in Threads, force_new \in BOOLEAN, conv \in ConvIds \cup {NoConv} :
          EnsureSessionFor(t, force_new, conv)
    \/ \E t \in Threads, force_new \in BOOLEAN, conv \in ConvIds \cup {NoConv} :
          CreateSessionSendFor(t, force_new, conv)
    \/ \E t \in Threads : CreateSessionStoreFor(t)
    \/ \E t \in Threads : CreateSessionFail(t)

SpecConv == InitConv /\ [][NextConv]_vars

\* token requests of the threads are watched while the cache is cleared by
\* an auth error or a cookie refresh
InitStale ==
    InitWatched({0}, {}, {}, Threads) /\ StreamUnused /\ use_database /\ ~auto_refresh

NextStale ==
    \/ Tick
    \/ MarkQuotaError(0, 401, NoKind)
    \/ AutoRefreshAccountCookie(0)
    \/ \E t \in Threads : JwtCheck(t, 0)
    \/ \E t \in Threads : JwtStore(t)
    \/ \E t \in Threads : JwtFail(t)

SpecStale == InitStale /\ [][NextStale]_vars

\* One account whose error ring is observed, errors with and without quota type
InitRing == InitObserved({0}, {0}) /\ StreamUnused /\ use_database /\ ~auto_refresh

NextRing ==
    \/ Tick
    \/ \E s \in {429, 500}, k \in {NoKind, "images"} : MarkQuotaError(0, s, k)

SpecRing == InitRing /\ [][NextRing]_vars

\* the calls of mark_quota_error for account 0 are counted
InitCalls == InitCounted({0}, {0}, {0}) /\ StreamUnused /\ use_database /\ ~auto_refresh

SpecCalls == InitCalls /\ [][NextRing]_vars

-----------------------------------------------------------------------------
(* Properties *)

\* is_available(account, quota_kind?) as the specification defines it
is_available(index, quota_type) ==
    LET state == account_states[index]
    IN  /\ state.available
        /\ ~state.cookie_expired
        /\ now >= state.cooldown_until
        /\ (quota_type = NoKind \/ now >= state.quota_type_cooldowns[quota_type])

\* C1: for every quota kind k (or no kind), the account get_next_account(k)
\* returns is enabled, not cookie_expired, past its cooldown_until and, for a
\* kind k, past per_quota_cooldowns[k].
C1_OnlyAvailableReturned ==
    \A k \in KindsOrNone :
        SelectedIndex(k) # NoAccount => is_available(SelectedIndex(k), k)

\* a step that re-binds the cookie of account i
CookieRefreshStep(i) ==
    MarkCookieRefreshed(i) \/ AutoRefreshAccountCookie(i) \/ WorkerRefreshSingle(i)

\* C2: cooldown monotonicity: no pool operation other than a cookie refresh of
\* the account (quota errors, cooldowns, disabling, selection, configuration
\* reload) makes the account's cooldown_until shorter or absent.
C2_CooldownMonotone ==
    [][\A i \in Indices :
          ~CookieRefreshStep(i) =>
              account_states'[i].cooldown_until >= account_states[i].cooldown_until]_vars

\* C3: JWT single-flight: at no time are two getoxsrf requests for the same
\* account in flight.
C3_SingleFlight == \A a \in Indices : oxsrf_inflight[a] <= 1

\* how often account i was returned by the calls a .. b of the log
TimesReturned(i, a, b) == Cardinality({j \in a .. b : sel_log[j].idx = i})

\* C4: round-robin fairness: over K consecutive get_next_account calls that
\* all found the same M accounts available, whatever their quota kinds, each
\* of the M accounts is returned floor(K/M) or ceil(K/M) times.
C4_RoundRobinFair ==
    \A a \in 1 .. Len(sel_log), b \in 1 .. Len(sel_log) :
        \A S \in SUBSET Indices :
            (a <= b /\ S # {} /\ \A j \in a .. b : sel_log[j].available = S)
            => \A i \in S :
                  LET K == b - a + 1
                      M == Cardinality(S)
                  IN  /\ TimesReturned(i, a, b) >= K \div M
                      /\ TimesReturned(i, a, b) <= (K + M - 1) \div M

\* four consecutive calls each found both accounts available, and each
\* account was returned twice
C4_Witness ==
    /\ Len(sel_log) >= 4
    /\ \A j \in 1 .. 4 : sel_log[j].available = {0, 1}
    /\ TimesReturned(0, 1, 4) = 2
    /\ TimesReturned(1, 1, 4) = 2

\* v is the first 00:00 Pacific time after t
IsNextPtMidnight(v, t) ==
    /\ v > t
    /\ v - t <= 86400
    /\ (v - 8 * 3600) % 86400 = 0

\* C5: an enabled account outside whole-account cooldown whose cooldown for
\* kind k1 is active is never returned by get_next_account(k1), and is still
\* eligible for get_next_account() and for every other kind k2 (that is not
\* cooling itself).
C5_KindCooldownsIndependent ==
    \A i \in Indices, k1 \in Kinds :
        LET state == account_states[i]
        IN  (/\ state.available
             /\ ~_is_in_cooldown(i, now)
             /\ now < state.quota_type_cooldowns[k1])
            => /\ SelectedIndex(k1) # i
               /\ i \in AvailableSet(NoKind)
               /\ \A k2 \in Kinds \ {k1} :
                     now >= state.quota_type_cooldowns[k2] => i \in AvailableSet(k2)

\* the account cools for images until midnight and for text_queries for two
\* minutes; five minutes later an images request finds no account, while
\* text_queries and untagged requests get the account
C5_Witness ==
    /\ IsNextPtMidnight(account_states[0].quota_type_cooldowns["images"], now)
    /\ account_states[0].quota_type_cooldowns["text_queries"] # 0
    /\ SelectedIndex("images") = NoAccount
    /\ SelectedIndex("text_queries") = 0
    /\ SelectedIndex(NoKind) = 0

\* C6: recording a 401 or 403 through mark_quota_error, with or without a
\* quota kind, leaves the whole account cooling until now + 15 min, sets
\* cookie_expired and signals the cookie-refresh collaborator.
C6_AuthErrorExpiresCookie ==
    [][\A i \in Indices, s \in {401, 403}, k \in KindsOrNone :
          MarkQuotaError(i, s, k) =>
              /\ account_states'[i].cooldown_until = now + AUTH_ERROR_COOLDOWN_SECONDS
              /\ account_states'[i].cookie_expired
              /\ refresh_event']_vars

\* C7: a 429 without a kind leaves cooldown_until = max(existing, now + 5 min);
\* any status other than 401/403/429 leaves cooldown_until =
\* max(existing, now + 2 min), whether or not a kind accompanies the call.
C7_WholeAccountCooldown ==
    \A i \in Indices :
        LET state == account_states[i]
        IN  /\ quota_error_state(state, 429, NoKind, now).cooldown_until
                 = Max(state.cooldown_until, now + RATE_LIMIT_COOLDOWN_SECONDS)
            /\ \A k \in KindsOrNone :
                  quota_error_state(state, 500, k, now).cooldown_until
                     = Max(state.cooldown_until, now + GENERIC_ERROR_COOLDOWN_SECONDS)

\* C7, amended: a 429 without a kind leaves cooldown_until =
\* max(existing, now + 5 min); another status that is not 401/403/429 leaves
\* cooldown_until = max(existing, now + 2 min) when no kind accompanies the
\* call, and with a kind k leaves only per_quota_cooldowns[k] =
\* max(existing, now + 2 min), cooldown_until being untouched.
C7_CooldownByKind ==
    \A i \in Indices :
        LET state == account_states[i]
        IN  /\ quota_error_state(state, 429, NoKind, now).cooldown_until
                 = Max(state.cooldown_until, now + RATE_LIMIT_COOLDOWN_SECONDS)
            /\ quota_error_state(state, 500, NoKind, now).cooldown_until
                 = Max(state.cooldown_until, now + GENERIC_ERROR_COOLDOWN_SECONDS)
            /\ \A k \in Kinds :
                  quota_error_state(state, 500, k, now)
                     = [state EXCEPT !.quota_type_cooldowns[k] =
                                        Max(@, now + GENERIC_ERROR_COOLDOWN_SECONDS)]

\* a 429 without a kind was just recorded on top of a 500 for images
C7_Witness ==
    /\ account_states[0].cooldown_reason = "HTTP 429"
    /\ account_states[0].cooldown_until = now + RATE_LIMIT_COOLDOWN_SECONDS
    /\ account_states[0].quota_type_cooldowns["images"]
          = now + GENERIC_ERROR_COOLDOWN_SECONDS

\* C8: a 429 with a quota kind k changes only per_quota_cooldowns[k], to the
\* later of its existing value and the next Pacific midnight; cooldown_until,
\* cooldown_reason, the enabled flag, jwt, session, the other kinds' cooldowns
\* and the account row stay as they were.
C8_DailyQuotaFrame ==
    /\ IsNextPtMidnight(now + seconds_until_next_pt_midnight(now), now)
    /\ \A i \in Indices, k \in Kinds :
          LET state == account_states[i]
          IN  /\ quota_error_state(state, 429, k, now)
                   = [state EXCEPT !.quota_type_cooldowns[k] =
                        Max(@, now + seconds_until_next_pt_midnight(now))]
              /\ quota_error_account(accounts[i], state, 429, k, now) = accounts[i]

\* images cools until the coming midnight while the cached jwt and session
\* are still there and the other kind keeps its own, shorter cooldown
C8_Witness ==
    /\ IsNextPtMidnight(account_states[0].quota_type_cooldowns["images"], now)
    /\ account_states[0].quota_type_cooldowns["text_queries"]
          = now + AUTH_ERROR_COOLDOWN_SECONDS
    /\ account_states[0].jwt # 0
    /\ account_states[0].session # 0
    /\ account_states[0].cooldown_until = 0

\* C9: a 401 recorded without a kind clears jwt and session and leaves
\* cooldown_until = now + 15 min; in a pool of one account every
\* get_next_account fails with NoAvailableAccount from then until that
\* cooldown ends or the cookie is refreshed.
C9_AuthErrorBlocksOnlyAccount ==
    [][/\ \A i \in Indices :
             MarkQuotaError(i, 401, NoKind) =>
                 /\ account_states'[i].jwt = 0
                 /\ account_states'[i].session = 0
                 /\ account_states'[i].cooldown_until = now + AUTH_ERROR_COOLDOWN_SECONDS
       /\ \A i \in Indices :
             (/\ Indices = {i}
              /\ account_states[i].cooldown_reason = "HTTP 401"
              /\ now' < account_states[i].cooldown_until
              /\ ~CookieRefreshStep(i))
             => \A k \in KindsOrNone : SelectedIndex(k)' = NoAccount]_vars

\* C10: mark_cookie_refreshed leaves the account enabled, not cookie_expired,
\* with no cooldown_until and no per_quota_cooldowns entry, hence available
\* for every quota kind and for untagged requests.
C10_RefreshedIsAvailable ==
    \A i \in Indices :
        LET state == cookie_refreshed_state(account_states[i])
        IN  /\ state.available
            /\ ~state.cookie_expired
            /\ state.cooldown_until = 0
            /\ \A k \in Kinds : state.quota_type_cooldowns[k] = 0

\* C11: mark_cookie_refreshed leaves the account's jwt, jwt_time and session,
\* the round-robin cursor, and every other account's row and state unchanged.
C11_RefreshFrame ==
    [][\A i \in Indices :
          MarkCookieRefreshed(i) =>
              /\ account_states'[i].jwt = account_states[i].jwt
              /\ account_states'[i].jwt_time = account_states[i].jwt_time
              /\ account_states'[i].session = account_states[i].session
              /\ current_index' = current_index
              /\ \A j \in Indices \ {i} :
                    /\ account_states'[j] = account_states[j]
                    /\ accounts'[j] = accounts[j]]_vars

\* account 0 had its cooldown popped while it holds a jwt and a session, the
\* cursor is past it and account 1 still cools
C11_Witness ==
    /\ ~account_states[0].has_cooldown_key
    /\ account_states[0].jwt # 0
    /\ account_states[0].session # 0
    /\ current_index = 1
    /\ now < account_states[1].cooldown_until

\* reasons a caller may pass to mark_account_unavailable
Reasons == {"HTTP 401", "HTTP 403", "auth failed (zh)", "auth error", "manual"}

\* the reasons carrying 401, 403 or the authentication-failure marker
AuthPatternReasons == {"HTTP 401", "HTTP 403", "auth failed (zh)"}

C13_CooldownIdempotent ==
    \A i \in Indices, d \in CooldownChoices :
        LET state == account_states[i]
            once == account_cooldown_state(state, "cooldown", d, now)
        IN  /\ once.cooldown_until = Max(state.cooldown_until, now + d)
            /\ (now < state.cooldown_until /\ now + d <= state.cooldown_until)
               => once = state
            /\ account_cooldown_state(once, "cooldown", d, now) = once

\* a cooldown set by mark_account_cooldown is active and a jwt and a session
\* were cached after it: a further call is the no-op case, and must keep them
C13_Witness ==
    /\ account_states[0].cooldown_reason = "cooldown"
    /\ now < account_states[0].cooldown_until
    /\ now + GENERIC_ERROR_COOLDOWN_SECONDS <= account_states[0].cooldown_until
    /\ account_states[0].jwt # 0
    /\ account_states[0].session # 0

\* enabled accounts that a cooldown keeps from requests of kind k
CoolingFor(k) ==
    {i \in Indices : state_of(i).available /\ i \notin AvailableSet(k)}

\* the seconds until account i is out of every cooldown that blocks kind k
RemainingFor(i, k) ==
    Max(state_of(i).cooldown_until,
        IF k = NoKind THEN 0 ELSE state_of(i).quota_type_cooldowns[k]) - now

\* C14: when get_next_account(k) finds no account while some enabled account
\* is cooling, whole-account or for kind k only, NoAvailableAccount carries
\* the shortest remaining cooldown among those accounts.
C14_NoAvailableCarriesShortest ==
    \A k \in KindsOrNone :
        (SelectedIndex(k) = NoAccount /\ CoolingFor(k) # {})
        => /\ no_available_remaining # NoRemaining
           /\ \E i \in CoolingFor(k) : no_available_remaining = RemainingFor(i, k)
           /\ \A i \in CoolingFor(k) : no_available_remaining <= RemainingFor(i, k)

\* C15: mark_account_unavailable completes without raising for every index,
\* in range, out of range or newly appended.
C15_MarkUnavailableNeverRaises ==
    \A index \in 0 .. MaxAccounts : ~mark_account_unavailable_raises(index)

\* C16: whatever mark_quota_error calls were made, with and without quota
\* type, the ring of an account has at most 5 entries and they are the last
\* entries recorded for it, oldest first and newest last.
C16_ErrorRingBound ==
    \A i \in DOMAIN quota_errors :
        LET log == recorded_errors[i]
            kept == IF Len(log) < QUOTA_ERRORS_KEPT THEN Len(log) ELSE QUOTA_ERRORS_KEPT
        IN  /\ Len(quota_errors[i]) <= QUOTA_ERRORS_KEPT
            /\ quota_errors[i] = SubSeq(log, Len(log) - kept + 1, Len(log))

\* more than 5 errors were recorded, of both kinds, and the oldest were dropped
C16_Witness ==
    /\ Len(recorded_errors[0]) > QUOTA_ERRORS_KEPT
    /\ Len(quota_errors[0]) = QUOTA_ERRORS_KEPT
    /\ \E a, b \in 1..Len(quota_errors[0]) :
          /\ quota_errors[0][a].quota_type = NoKind
          /\ quota_errors[0][b].quota_type = "images"

\* C17: whatever the request threads, JWT refreshes and cooldowns do, an
\* account never has more than one create-session request in flight.
C17_SessionCreateSingleFlight == \A a \in Indices : sessions_inflight(a) <= 1

\* a create-session request is in flight while another thread, whose cached
\* session was cleared, waits to ask for a session itself
C17_Witness ==
    \E t, u \in Threads :
        /\ t # u
        /\ pc[t] = "creating"
        /\ pc[u] = "done"
        /\ t_acc[t] = t_acc[u]
        /\ account_states[t_acc[t]].session = 0
        /\ account_states[t_acc[t]].cooldown_until > now

C19_SessionRotation ==
    [][\A t \in Threads :
          LET old == account_states[t_acc[t]]
              new == account_states'[t_acc[t]]
          IN  /\ EnsureSession(t) =>
                    /\ old.session_count < 50
                    /\ now - old.session_created_time < 12 * 3600
                    /\ new.session_count = old.session_count + 1
              /\ CreateSessionStore(t) =>
                    /\ new.session_count = 1
                    /\ new.session_created_time = now]_vars

\* C20: every upstream request of a chat turn that carries the turn's JWT
\* (session create, stream-assist, list-file-metadata, each media download)
\* is sent with a JWT fetched at most 240 s earlier.
C20_JwtFreshAtIssue ==
    [][\A t \in Threads :
          (\/ CreateSessionSend(t)
           \/ StreamAssist(t)
           \/ ListFileMetadata(t)
           \/ \E last \in BOOLEAN : DownloadFile(t, last))
          => now - t_jwt_time[t] <= JWT_MAX_AGE]_vars

\* C21: while an upstream request (JWT fetch or session creation) is in
\* flight nobody holds the pool lock, so get_next_account and mark_* of
\* another request can run.
C21_LockNotHeldWhileBlocking ==
    (\E a \in Indices : oxsrf_inflight[a] > 0 \/ sessions_inflight(a) > 0)
    => /\ lock_free
       /\ ENABLED GetNextAccount(NoKind)
       /\ ENABLED MarkAccountCooldown(0, GENERIC_ERROR_COOLDOWN_SECONDS)

IsPrefixOf(a, b) == Len(a) <= Len(b) /\ a = SubSeq(b, 1, Len(a))

\* C22: however the text of an array of objects is cut into chunks, the
\* objects returned so far are a prefix of its elements, and once the whole
\* text was fed they are exactly its elements, in order, each once.
C22_DecoderEquivalence ==
    /\ IsPrefixOf(decoded, elements)
    /\ text_left = <<>> => decoded = elements

\* a chunk ended inside the second object: the first was returned, the start
\* of the second waits in the buffer
C22_Witness ==
    /\ Len(elements) >= 2
    /\ Len(decoded) = 1
    /\ text_left # <<>>
    /\ buffer # <<>> /\ Head(buffer) = "{"
    /\ Len(buffer) > 1

is_text_chunk(chunk) == chunk.kind = "text"

\* C23: whatever the replies are, no text chunk sent by the generator and
\* no text collected by the non-streaming function comes from a reply with a
\* thought flag, at reply or content level, or whose stripped text begins
\* with "**".
C23_ThoughtFiltered ==
    \A i \in 1 .. Len(emitted) + Len(texts) :
        LET chunk == IF i <= Len(emitted) THEN emitted[i] ELSE texts[i - Len(emitted)]
        IN  chunk.kind = "text" =>
              LET reply == replies[chunk.src]
              IN  /\ ~reply.thought_reply
                  /\ ~reply.thought_content
                  /\ ~startswith_stars(strip(reply.text))

\* a response with a content-level thought and a plain reply was handled:
\* only the plain one was forwarded
C23_Witness ==
    /\ gen_pc = "finished"
    /\ Len(replies) = 2
    /\ replies[1].thought_content /\ ~replies[1].thought_reply
    /\ replies[1].text = <<"h">>
    /\ text_delta(replies[2]) # <<>>
    /\ \/ sse /\ Len(SelectSeq(emitted, is_text_chunk)) = 1
       \/ ~streaming /\ Len(texts) = 1

\* the text chunks of the replies i .. Len(rs), reply by reply
RECURSIVE text_chunks_from(_, _)
text_chunks_from(rs, i) ==
    IF i > Len(rs) THEN <<>>
    ELSE IF text_delta(rs[i]) # <<>>
         THEN <<text_chunk(text_delta(rs[i]), i)>> \o text_chunks_from(rs, i + 1)
         ELSE text_chunks_from(rs, i + 1)

is_stop_chunk(chunk) == chunk.kind = "stop"

\* C24: in a streaming turn (the generator called with chat_id, created and
\* model_name) the first chunk sent is the role marker and nothing follows
\* [DONE]; when the turn succeeds, the text chunks are those of the replies in
\* upstream order, then comes exactly one stop chunk and, right after it and
\* last, [DONE].
C24_EmissionOrder ==
    sse =>
      /\ emitted # <<>> => emitted[1] = role_chunk
      /\ \A i \in 1 .. Len(emitted) : emitted[i].kind = "role" => i = 1
      /\ \A i \in 1 .. Len(emitted) - 1 : emitted[i].kind # "done"
      /\ IsPrefixOf(SelectSeq(emitted, is_text_chunk), text_chunks_from(replies, 1))
      /\ gen_pc = "finished" =>
           LET n == Len(emitted)
           IN  /\ n >= 3
               /\ emitted[n] = done_line
               /\ emitted[n - 1] = end_chunk
               /\ Len(SelectSeq(emitted, is_stop_chunk)) = 1
               /\ SelectSeq(emitted, is_text_chunk) = text_chunks_from(replies, 1)
               /\ \A i \in 2 .. n - 2 : emitted[i].kind \in {"text", "media"}

\* a finished turn that sent two text deltas between the role marker and the
\* stop chunk
C24_Witness ==
    /\ sse
    /\ gen_pc = "finished"
    /\ Len(emitted) = 5
    /\ emitted[2].kind = "text" /\ emitted[3].kind = "text"
    /\ emitted[2].content # emitted[3].content

C26_MediaEmitted ==
    (sse /\ gen_pc = "finished") =>
        \A i \in 1 .. Len(images) :
            \E j \in 1 .. Len(emitted) - 2 :
                /\ emitted[j] = image_chunk(images[i])
                /\ \A k \in 1 .. Len(emitted) : emitted[k] = emitted[j] => k = j

\* C27: a call of get_next_account returns the element of the available
\* accounts, taken in insertion order, at the cursor modulo their number and
\* leaves the cursor one further modulo that number; the account returned is
\* always one of the available ones.
C27_CursorRule ==
    [][Len(sel_log') = Len(sel_log) + 1 =>
          LET call == sel_log'[Len(sel_log')]
              available == SortedSeq(call.available)
              n == Len(available)
          IN  IF n = 0
              THEN call.idx = NoAccount /\ current_index' = current_index
              ELSE /\ call.idx = available[(current_index % n) + 1]
                   /\ call.idx \in call.available
                   /\ current_index' = ((current_index % n) + 1) % n
                   /\ current_index' < n]_vars

\* with account 0 cooling down and the cursor at 0, account 1 was returned,
\* then account 2, then account 1 again
C27_Witness ==
    /\ Len(sel_log) >= 3
    /\ \A j \in 1 .. 3 : sel_log[j].available = {1, 2}
    /\ sel_log[1].idx = 1 /\ sel_log[2].idx = 2 /\ sel_log[3].idx = 1

\* C28: when time passes and nothing else happens, an enabled account that
\* was held back only by its whole-account cooldown, or by the cooldown of the
\* kind asked for, is among the available accounts as soon as the clock has
\* reached the stored instants; and no state is terminal: an account can
\* always be marked refreshed, which makes it available again.
C28_CooldownExpiresUnaided ==
    /\ [][now' # now =>
            \A i \in Indices, k \in KindsOrNone :
                LET state == state_of(i)
                IN  ( /\ state.available
                      /\ ~state.cookie_expired
                      /\ i \notin AvailableSet(k)
                      /\ state.cooldown_until <= now'
                      /\ (k # NoKind => state.quota_type_cooldowns[k] <= now') )
                    => (i \in AvailableSet(k))']_vars
    /\ [][\A i \in Indices :
            MarkCookieRefreshed(i) => (i \in AvailableSet(NoKind))']_vars
    /\ [](\A i \in Indices : ENABLED MarkCookieRefreshed(i))

\* the clock stands exactly at the end of a whole-account cooldown and of a
\* kind's cooldown, and the account is available for that kind
C28_Witness ==
    \E i \in Indices, k \in Kinds :
        /\ now > StartTs
        /\ state_of(i).cooldown_until = now
        /\ state_of(i).quota_type_cooldowns[k] = now
        /\ i \in AvailableSet(k)

\* C29 as stated: ensure_jwt_for_account sends a getoxsrf request exactly
\* when no token is cached or the cached one is 240 s old or older, and
\* otherwise returns the cached token without a request.
C29_RefreshFromMaxAge ==
    [][\A t \in Threads :
          JwtCheck(t, 0) =>
             LET state == account_states[0]
                 stale == state.jwt = 0 \/ now - state.jwt_time >= JWT_MAX_AGE
             IN  /\ stale <=> (pc'[t] = "fetching"
                               /\ oxsrf_inflight'[0] = oxsrf_inflight[0] + 1)
                 /\ ~stale => /\ pc'[t] = "done"
                              /\ t_jwt'[t] = state.jwt
                              /\ oxsrf_inflight' = oxsrf_inflight]_vars

\* C29 amended: ensure_jwt_for_account sends a getoxsrf request exactly when
\* no token is cached or the cached one is older than 240 s; a token of
\* exactly 240 s is returned from the cache without a request.
C29_RefreshPastMaxAge ==
    [][\A t \in Threads :
          JwtCheck(t, 0) =>
             LET state == account_states[0]
                 stale == state.jwt = 0 \/ now - state.jwt_time > JWT_MAX_AGE
             IN  /\ stale <=> (pc'[t] = "fetching"
                               /\ oxsrf_inflight'[0] = oxsrf_inflight[0] + 1)
                 /\ ~stale => /\ pc'[t] = "done"
                              /\ t_jwt'[t] = state.jwt
                              /\ oxsrf_inflight' = oxsrf_inflight]_vars

\* a call got the cached token at the age of exactly 240 s while another
\* call is waiting for a new one
C29_Witness ==
    \E t \in Threads, u \in Threads :
        /\ pc[t] = "done"
        /\ t_jwt[t] # 0
        /\ now - t_jwt_time[t] = JWT_MAX_AGE
        /\ t_jwt[t] = account_states[0].jwt
        /\ pc[u] = "fetching"

\* C30: the decoder keeps a buffer and waits for more input only when the
\* value at its start is cut off by the end of the input; it never waits on
\* a buffer whose start is malformed (the bracket that closes the array
\* aside), which would hold back every later element.
C30_WaitsOnlyOnIncomplete ==
    (buffer # <<>> /\ buffer # <<"]">>) => raw_decode(buffer) = UnexpectedEnd

\* C31: every mark_quota_error call for an existing account has added one
\* entry to the records of that account, also a call whose cooldown did not
\* reach beyond the one already set.
C31_EveryErrorRecorded ==
    \A i \in DOMAIN error_calls : Len(recorded_errors[i]) = error_calls[i]

\* C32 as stated: after load_config every runtime state is at its defaults
\* (no token, no session, use count 0, no whole-account cooldown, no
\* cooldown of a kind) in both storage modes.
C32_LoadGivesDefaults ==
    [][ReloadConfig =>
          \A i \in DOMAIN account_states' :
              LET state == account_states'[i]
              IN  /\ state.jwt = 0 /\ state.session = 0 /\ state.session_count = 0
                  /\ state.cooldown_until = 0
                  /\ \A k \in Kinds : state.quota_type_cooldowns[k] = 0]_vars

\* C32 amended: after load_config every runtime state has no token, no
\* session, use count 0 and no cooldown of a kind; the whole-account cooldown
\* is the one of the stored row, which is none in database mode and the last
\* saved cooldown_until in JSON mode.
C32_LoadKeepsSavedCooldown ==
    [][ReloadConfig =>
          \A i \in DOMAIN account_states' :
              LET state == account_states'[i]
              IN  /\ state.jwt = 0 /\ state.session = 0 /\ state.session_count = 0
                  /\ \A k \in Kinds : state.quota_type_cooldowns[k] = 0
                  /\ state.cooldown_until =
                       IF use_database THEN 0 ELSE stored[i].cooldown_until]_vars

\* JSON mode: a 401 without kind and later a 429 for images were recorded and
\* nothing else; the cooldown of the kind is gone, so the configuration was
\* loaded since, and the whole-account cooldown is still running
C32_Witness ==
    /\ ~use_database
    /\ Len(recorded_errors[0]) = 2
    /\ recorded_errors[0][1].quota_type = NoKind
    /\ recorded_errors[0][2].quota_type = "images"
    /\ recorded_errors[0][1].time < recorded_errors[0][2].time
    /\ account_states[0].quota_type_cooldowns["images"] = 0
    /\ account_states[0].cooldown_until > now

\* C33: once the upstream answered, nothing ends the turn early: a failed
\* metadata request skips the files, a failed download or upload of one file
\* leaves the others to be handled, and the turn ends with one stop chunk and
\* one [DONE] after them.
C33_MediaFailureContained ==
    /\ gen_pc \in {"raised", "failed", "retry"} => next_reply = 1 /\ next_file = 1
    /\ gen_pc \in {"end", "finished"} =>
          next_file = 1 \/ next_file = Len(file_ids_list) + 1
    /\ (sse /\ gen_pc = "finished") =>
          LET n == Len(emitted)
          IN  /\ emitted[n] = done_line /\ emitted[n - 1] = end_chunk
              /\ \A i \in 1 .. n - 2 : emitted[i].kind \notin {"stop", "done"}
              /\ \A j \in 1 .. Len(images) :
                    replies[images[j]].media = "file" =>
                        \E i \in 2 .. n - 2 : emitted[i] = image_chunk(images[j])

\* two files were named; the first download failed, the second was sent, and
\* the turn was finished
C33_Witness ==
    /\ sse /\ gen_pc = "finished"
    /\ file_ids_list = <<1, 2>>
    /\ images = <<2>>
    /\ emitted = <<role_chunk, image_chunk(2), end_chunk, done_line>>

\* C34: every account of the accounts list, one appended by save_to_config
\* included, has an entry in account_states, so whatever get_next_account
\* returns has one.
C34_RuntimeStateExists ==
    /\ \A i \in Indices : i \in DOMAIN account_states
    /\ \A k \in KindsOrNone :
          SelectedIndex(k) # NoAccount => SelectedIndex(k) \in DOMAIN account_states

\* C35: the cache of an account never holds a token whose request was sent
\* before a cookie refresh or a whole-account cooldown cleared that cache.
C35_NoStaleWriteBack ==
    \A t \in DOMAIN stale_fetch :
        ~( /\ stale_fetch[t]
           /\ pc[t] = "done"
           /\ t_jwt[t] # 0
           /\ account_states[t_acc[t]].jwt = t_jwt[t] )

\* C36: a call of ensure_session_for_account that returns without a request,
\* with or without a conversation id, never returns a session name that was
\* cleared from the cache by a JWT refresh, a cooldown or a cookie refresh.
C36_ClearedSessionNotReturned ==
    [][\A t \in Threads, force_new \in BOOLEAN, conv \in ConvIds \cup {NoConv} :
          EnsureSessionFor(t, force_new, conv) =>
              t_session'[t] \notin cleared_sessions]_vars

\* C37: a failed create-session request leaves the cached session and the
\* sessions kept for the conversations as they were before the call: nothing
\* is changed before the request is sent, and nothing when it fails.
C37_FailedCreateChangesNothing ==
    [][\A t \in Threads :
          /\ \A force_new \in BOOLEAN, conv \in ConvIds \cup {NoConv} :
                CreateSessionSendFor(t, force_new, conv) =>
                    /\ conversation_sessions' = conversation_sessions
                    /\ account_states' = account_states
          /\ CreateSessionFail(t) =>
                /\ conversation_sessions' = conversation_sessions
                /\ account_states' = account_states]_vars

\* C38: with auto-refresh enabled and the worker running, every setting of
\* the immediate-refresh event, also one that arrives while a pass is under
\* way, is followed by the start of a check-and-refresh pass.
C38_SignalServed == unserved_signal ~> ~unserved_signal

\* the event was set while a pass was under way
C38_Witness ==
    /\ worker_pc \in {"checking", "batch"}
    /\ unserved_signal /\ refresh_event

\* C39: in database mode save_config followed by load_config gives the
\* accounts of the list back, one row per account in the order of the list,
\* whatever additions, updates and removals the list went through.
C39_RoundTrip ==
    use_database => identities(save_config(accounts)) = identities(accounts)

\* C40 as stated: two consecutive get_next_account calls that both found at
\* least two accounts available do not return the same account, even when an
\* account entered or left cooldown between them.
C40_NoImmediateRepeat ==
    \A j \in 1 .. Len(sel_log) - 1 :
        (Cardinality(sel_log[j].available) >= 2
            /\ Cardinality(sel_log[j + 1].available) >= 2)
        => sel_log[j].idx # sel_log[j + 1].idx

\* C40, amended: two consecutive get_next_account calls that found the same
\* two or more accounts available do not return the same account.
C40_NoRepeatOverSameSet ==
    \A j \in 1 .. Len(sel_log) - 1 :
        (Cardinality(sel_log[j].available) >= 2
            /\ sel_log[j + 1].available = sel_log[j].available)
        => sel_log[j].idx # sel_log[j + 1].idx

\* two consecutive calls over the same three accounts, and two more after one
\* of them entered cooldown
C40_Witness ==
    /\ Len(sel_log) >= 4
    /\ sel_log[1].available = {0, 1, 2} /\ sel_log[2].available = {0, 1, 2}
    /\ Cardinality(sel_log[3].available) = 2
    /\ sel_log[4].available = sel_log[3].available

====
